---- MODULE Spec2Model ----
(***************************************************************************)
(* Wavefront path tracer: the host controller (Pathtracer::init,           *)
(* resize_init, render) and the device kernels it launches                 *)
(* (kernel_generate, kernel_sort, kernel_shade_diffuse,                    *)
(* kernel_shade_dielectric, kernel_shade_glossy), one action per host      *)
(* statement group and one action per device thread.                       *)
(***************************************************************************)
EXTENDS Integers, Sequences, FiniteSets, TLC

(***************************************************************************)
(* Bounds.  The program's compile-time sizes live in headers that are not  *)
(* part of the sources at hand; the model runs them scaled down.           *)
(***************************************************************************)
BATCH_SIZE == 2
WARP_SIZE == 1
NUM_BOUNCES == 2
MaxWidth == 3
MaxHeight == 1
MAX_ATROUS_ITERATIONS == 1

Bounces == 0 .. (NUM_BOUNCES - 1)
Slots == 0 .. (BATCH_SIZE - 1)
Widths == 0 .. MaxWidth
Heights == 1 .. MaxHeight

MaterialTypes == {"DIFFUSE", "DIELECTRIC", "GLOSSY", "LIGHT"}

Min(a, b) == IF a < b THEN a ELSE b

(***************************************************************************)
(* Faulty variants of single statements.  Each one replaces the definition *)
(* it is named after, to show that the property stated for that code is    *)
(* able to fail.                                                           *)
(***************************************************************************)
\* the index guard of kernel_sort off by one
SortReturnsAtGuard_OffByOne(index, n) == index > n

\* the Russian roulette return missing: a killed ray still reaches the switch
ReachesSwitch_NoRoulette(b, hit, survives) == hit # "miss" /\ hit # "LIGHT"

\* kernel_shade_glossy reading from the front of the shared buffer
GlossyIndexIn_Front(index) == index

\* resize_init without the clamp to BATCH_SIZE
ResizeBatchSize_NoClamp(pixels) == pixels

\* an increment that is not atomic: every caller sees the same old value
atomic_agg_inc_index_Stale(sizes, q, b) == 0

\* the last batch of a frame not shortened to the pixels that are left
BatchPixelCount_Full(left, bs) == bs

\* the bounce loop launching its kernels again for the same bounce
NextBounce_Same(b) == b

\* kernel_accumulate launched whether or not SVGF ran
AccumulateLaunched_Always == TRUE

\* Russian roulette played at every bounce
RussianRouletteApplies_EveryBounce(b) == b >= 0

\* trace and sort launched at every bounce, whatever produced the primary rays
TraceAndSortLaunched_Always(b) == TRUE

\* shade-diffuse clearing the MIS flag
DiffuseMisEligable_Cleared == FALSE

VARIABLES
    \* Pathtracer members set by init / resize_init
    screen_width, screen_height, pixel_count, batch_size, grid_dim_x,
    materials, scene_has, settings,
    \* host copy of BufferSizes and the device global it is uploaded to
    host_buffer_sizes, buffer_sizes,
    \* locals of Pathtracer::render
    pc, pixels_left, pixel_offset, batch_pixel_count, bounce, atrous_i,
    \* device: running kernel, its pending threads, ray buffers
    kernel, todo, ray_buffer_trace, ray_buffer_shade_dielectric_and_glossy,
    \* history variables (observation only, never read by an action's guard)
    retired, handed, processed, reads, launches, batches

VARIABLES
    \* Pathtracer::update: the frame counter, and (history) the last call's inputs
    frames_since_camera_moved, update_call,
    \* one pixel of the accumulator surface, and (history) the frames accumulated
    accumulator, rendered,
    \* one word of pixel_index_and_mis_eligable: what is packed, the word, what is read
    pack_in, packed_word, unpacked,
    \* one path followed through the kernels: the ray, its pixel of the frame
    \* buffers, and (history) what the last kernel_sort thread did with it
    path, frame_buffer, sort_step,
    \* (history) the settings and the jitter of the last kernel_generate launch
    generate_call

accumvars == << accumulator, rendered >>

packvars == << pack_in, packed_word, unpacked >>

pathvars == << path, frame_buffer, sort_step >>

VARIABLES
    \* the SVGF stage of render: position, loop counter, the four buffer pointers, the buffers written last, and (history) the kernels launched with their arguments
    svgf,
    \* resize_free / resize_init: position, the handle each member or global holds, the live allocations, and (history) double frees and uses of freed handles
    resources,
    \* the pixel indices of a frame: screen size and pitch, the batch loop of render, the threads of kernel_generate still to run, and (history) the rays written and the rays kernel_sort decoded
    pixel,
    \* TextureLoader::load_stb: position, the texture size, the locals of the mip chain loop, and (history) the levels written
    mip,
    \* Camera: position, rotation (quarter turns), projection, the two view projection matrices, moved, the jitter, and (history) the number of update calls, the view_projection the previous call computed, and whether anything changed the camera between the calls
    camera

latevars == << svgf, resources, pixel, mip, camera >>

not_svgf == << resources, pixel, mip, camera >>

not_resources == << svgf, pixel, mip, camera >>

not_pixel == << svgf, resources, mip, camera >>

not_mip == << svgf, resources, pixel, camera >>

not_camera == << svgf, resources, pixel, mip >>

\* state outside the wavefront loop; render and the kernels it launches leave it alone
casevars == << frames_since_camera_moved, update_call, accumvars, packvars, pathvars,
              generate_call, latevars >>

\* the case state of the parts before the later ones
oldcase == << frames_since_camera_moved, update_call, accumvars, packvars, pathvars,
              generate_call >>

vars == << screen_width, screen_height, pixel_count, batch_size, grid_dim_x,
           materials, scene_has, settings, host_buffer_sizes, buffer_sizes,
           pc, pixels_left, pixel_offset, batch_pixel_count, bounce, atrous_i,
           kernel, todo, ray_buffer_trace, ray_buffer_shade_dielectric_and_glossy,
           retired, handed, processed, reads, launches, batches, casevars >>

confvars == << screen_width, screen_height, pixel_count, batch_size, grid_dim_x,
               materials, scene_has, settings, casevars >>

(***************************************************************************)
(* BufferSizes: every counter is an array over the bounces.                *)
(***************************************************************************)
CounterNames == {"trace", "diffuse", "dielectric", "glossy", "shadow",
                 "rays_retired", "rays_retired_shadow"}

QueueNames == {"trace", "diffuse", "dielectric", "glossy", "shadow"}

BufferSizes == [c \in CounterNames |-> [b \in Bounces |-> 0]]

\* set_block_dim(WARP_SIZE * 2, 1, 1) for primary, generate, sort and the shade kernels
BlockDimX == WARP_SIZE * 2

\* set_grid_dim(batch_size / block_dim_x, 1, 1)
GridDimX(bs) == bs \div BlockDimX

\* the thread indices blockIdx.x * blockDim.x + threadIdx.x of a launch
LaunchedThreads == 0 .. (grid_dim_x * BlockDimX - 1)

(***************************************************************************)
(* Configurations: the scene's material types (Material::materials) and    *)
(* the user settings.  settings holds the host flags (enable_svgf,         *)
(* enable_taa, ...) together with the device Settings record they feed.    *)
(***************************************************************************)
SceneHas(mats) ==
    [diffuse    |-> "DIFFUSE" \in mats,
     dielectric |-> "DIELECTRIC" \in mats,
     glossy     |-> "GLOSSY" \in mats,
     lights     |-> "LIGHT" \in mats]

SettingsSpace ==
    [num_bounces : 1 .. NUM_BOUNCES,
     enable_next_event_estimation : BOOLEAN,
     enable_multiple_importance_sampling : BOOLEAN,
     enable_rasterization : BOOLEAN,
     enable_svgf : BOOLEAN,
     enable_spatial_variance : BOOLEAN,
     enable_taa : BOOLEAN,
     atrous_iterations : 0 .. MAX_ATROUS_ITERATIONS]

(***************************************************************************)
(* The configurations explored.  The reconstruction flags are read only    *)
(* after the last batch of a frame and the scene only by the kernels of    *)
(* the bounce loop, so every light-transport configuration (scene, NEE,    *)
(* MIS, bounce count, rasterization) is explored under plain accumulation, *)
(* and every reconstruction configuration with the scene that has no       *)
(* geometry.                                                               *)
(***************************************************************************)
PlainAccumulate(st) ==
    /\ ~st.enable_svgf
    /\ ~st.enable_spatial_variance
    /\ ~st.enable_taa
    /\ st.atrous_iterations = 0

Configurations ==
    { c \in [materials : SUBSET MaterialTypes, settings : SettingsSpace] :
        \/ PlainAccumulate(c.settings)
        \/ /\ c.materials = {}
           /\ c.settings.num_bounces = NUM_BOUNCES
           /\ ~c.settings.enable_next_event_estimation
           /\ ~c.settings.enable_multiple_importance_sampling }

\* buffer contents left behind by an earlier bounce, batch or frame
StaleTrace == [s \in Slots |-> [written |-> FALSE, mis_eligable |-> FALSE]]

StaleMaterial == [s \in Slots |-> "stale"]

\* a ray written to the trace buffer, with bit 31 of pixel_index_and_mis_eligable
TraceRay(mis_eligable) == [written |-> TRUE, mis_eligable |-> mis_eligable]

NoRetired ==
    [b \in Bounces |->
        [miss |-> 0, light_full |-> 0, light_mis |-> 0, light_drop |-> 0, rr |-> 0]]

NoneHanded == [q \in QueueNames |-> [b \in Bounces |-> << >>]]

NoCount == [s \in Slots |-> 0]

\* a launch: the kernel and the bounce argument it was given
KernelLaunch(name, b) == [name |-> name, bounce |-> b]

NoKernel == KernelLaunch("none", 0)

(***************************************************************************)
(* Pathtracer::init followed by the resize_init it calls.                  *)
(***************************************************************************)
\* buffer_sizes.trace[0] = batch_size
SetTrace0(sizes, n) == [sizes EXCEPT !["trace"][0] = n]

\* batch_size = Math::min(BATCH_SIZE, pixel_count)
ResizeBatchSize(pixels) == Min(BATCH_SIZE, pixels)

resize_init(width, height) ==
    /\ screen_width'  = width
    /\ screen_height' = height
    /\ pixel_count'   = width * height
    /\ batch_size'    = ResizeBatchSize(width * height)
    /\ grid_dim_x'    = GridDimX(ResizeBatchSize(width * height))
    /\ frames_since_camera_moved' = 0

\* no call of update yet
NoUpdateCall ==
    [called |-> FALSE, settings_changed |-> FALSE, enable_svgf |-> FALSE,
     moved |-> FALSE, old |-> 0]

\* a colour channel as an exact fraction num / den
Fraction(num, den) == [num |-> num, den |-> den]

\* no frame accumulated since the last restart of the sequence
NoneRendered == [consecutive |-> TRUE, colours |-> << >>]

\* frame counter and accumulator as init leaves them
FrameIdle ==
    /\ frames_since_camera_moved = 0
    /\ update_call = NoUpdateCall
    /\ accumulator = Fraction(0, 1)
    /\ rendered = NoneRendered

\* no word written, none read
NoWord == [written |-> FALSE, word |-> 0]

NoneUnpacked == [read |-> FALSE, pixel_index |-> 0, flag |-> 0]

PackIdle ==
    /\ pack_in = [pixel_index |-> 0, mis_eligable |-> FALSE]
    /\ packed_word = NoWord
    /\ unpacked = NoneUnpacked

\* no path started; the pixel's frame buffers cleared
Zero == Fraction(0, 1)

Half == Fraction(1, 2)

One == Fraction(1, 1)

\* colours (float3) with equal or zero components
Black == << Zero, Zero, Zero >>

White == << One, One, One >>

NoPath ==
    [stage |-> "none", bounce |-> 0, word |-> 0, throughput |-> White,
     last_pdf |-> Zero, producer |-> "none", rough |-> FALSE,
     modulate_albedo |-> FALSE, carried |-> White,
     contributed |-> [direct |-> Black, indirect |-> Black]]

ClearedPixel == [direct |-> Black, indirect |-> Black, albedo |-> White]

NoSortStep ==
    [done |-> FALSE, bounce |-> 0, hit |-> "miss", mis_eligable |-> FALSE,
     producer |-> "none", rough |-> FALSE, throughput |-> White,
     before |-> ClearedPixel, outcome |-> "none", contribution |-> Black,
     emission |-> Black, brdf_pdf |-> Zero, light_pdf |-> Zero,
     roulette |-> FALSE, survival_probability |-> Zero, draw |-> Zero,
     queue |-> "none", queued_throughput |-> White]

PathIdle ==
    /\ path = NoPath
    /\ frame_buffer = ClearedPixel
    /\ sort_step = NoSortStep

\* kernel_generate not launched yet
NoGenerateCall ==
    [called |-> FALSE, enable_svgf |-> FALSE, enable_taa |-> FALSE,
     reconstruction_filter |-> "BOX", sample_index |-> 0, jitter |-> "none"]

GenerateIdle == generate_call = NoGenerateCall

\* the reconstruction stage not entered
NoSvgf ==
    [pc |-> "idle", i |-> 0,
     direct_in |-> "none", indirect_in |-> "none",
     direct_out |-> "none", indirect_out |-> "none",
     written |-> [direct |-> "none", indirect |-> "none"],
     log |-> << >>]

\* what resize_init allocates or registers, in the order of its statements: the
\* member or module global that holds each handle
InitSteps ==
    << "resource_gbuffer_normal_and_depth", "resource_gbuffer_uv",
       "resource_gbuffer_uv_gradient", "resource_gbuffer_triangle_id",
       "resource_gbuffer_motion", "resource_gbuffer_z_gradient",
       "gbuffer_normal_and_depth", "gbuffer_uv", "gbuffer_uv_gradient",
       "gbuffer_triangle_id", "gbuffer_screen_position_prev", "gbuffer_depth_gradient",
       "frame_buffer_albedo", "frame_buffer_moment",
       "ptr_direct", "ptr_indirect", "ptr_direct_alt", "ptr_indirect_alt",
       "resource_accumulator", "accumulator",
       "history_length", "history_direct", "history_indirect", "history_moment",
       "history_normal_and_depth",
       "taa_frame_prev", "taa_frame_curr" >>

ResizeScoped == {InitSteps[k] : k \in 1 .. Len(InitSteps)}

\* the state init leaves: resize_init has run once, every holder has the handle of
\* generation 1 and all of them are live
AllocatedOnce ==
    [pc |-> "idle", step |-> 1, cycle |-> 1, rendered |-> FALSE,
     holder |-> [n \in ResizeScoped |-> 1],
     live |-> {<< n, 1 >> : n \in ResizeScoped},
     faults |-> {}, history_length |-> 0]

\* no frame of the pixel index computation started: a 1 x 1 screen
NoPixel ==
    [width |-> 1, height |-> 1, pitch |-> 1, batch_size |-> 1,
     pixels_left |-> 0, pixel_offset |-> 0, pixel_count |-> 0, batch |-> 0,
     todo |-> {}, written |-> {}, sorted |-> {}]

\* no texture loaded
NoMip ==
    [pc |-> "idle", width |-> 1, height |-> 1, pixel_count |-> 0, mip_levels |-> 0,
     offset |-> 0, offset_prev |-> 0, level_width |-> 0, level_height |-> 0,
     level |-> 0, levels |-> << >>]

\* the 3 x 3 identity matrix
Identity == << << 1, 0, 0 >>, << 0, 1, 0 >>, << 0, 0, 1 >> >>

\* a camera at the origin that no update has touched
NoCamera ==
    [position |-> << 0, 0 >>, rotation |-> 0, projection |-> Identity,
     view_projection |-> Identity, view_projection_prev |-> Identity,
     moved |-> FALSE, jitter_index |-> 0, jitter |-> << 0, 0 >>,
     calls |-> 0, computed |-> Identity, steady |-> FALSE, changed |-> FALSE]

\* the later parts at rest
LateIdle ==
    /\ svgf = NoSvgf
    /\ resources = AllocatedOnce
    /\ pixel = NoPixel
    /\ mip = NoMip
    /\ camera = NoCamera

\* the state outside the wavefront loop as init leaves it
CaseIdle == FrameIdle /\ PackIdle /\ PathIdle /\ GenerateIdle /\ LateIdle

InitAt(w, h, c) ==
        /\ screen_width  = w
        /\ screen_height = h
        /\ pixel_count   = w * h
        /\ batch_size    = ResizeBatchSize(w * h)
        /\ grid_dim_x    = GridDimX(ResizeBatchSize(w * h))
        /\ materials     = c.materials
        /\ scene_has     = SceneHas(c.materials)
        /\ settings      = c.settings
        \* init: batch_size = BATCH_SIZE; buffer_sizes.trace[0] = batch_size; set_value
        /\ host_buffer_sizes = SetTrace0(BufferSizes, BATCH_SIZE)
        /\ buffer_sizes      = SetTrace0(BufferSizes, BATCH_SIZE)
        /\ pc = "idle"
        /\ pixels_left = 0
        /\ pixel_offset = 0
        /\ batch_pixel_count = 0
        /\ bounce = 0
        /\ atrous_i = 0
        /\ kernel = NoKernel
        /\ todo = {}
        /\ ray_buffer_trace = StaleTrace
        /\ ray_buffer_shade_dielectric_and_glossy = StaleMaterial
        /\ retired = NoRetired
        /\ handed = NoneHanded
        /\ processed = NoCount
        /\ reads = NoCount
        /\ launches = << >>
        /\ batches = << >>

Init ==
    \E w \in Widths \ {0}, h \in Heights, c \in Configurations :
        InitAt(w, h, c) /\ CaseIdle

(***************************************************************************)
(* Host: Pathtracer::render.  pc names the next statement.  A kernel       *)
(* launched on the stream starts after the one before it has completed,    *)
(* which the guard todo = {} expresses.                                    *)
(***************************************************************************)
\* RECORD_EVENT / execute: the launch log of the frame; batch is the number of the
\* batch the host is in, arg the bounce (or, for the A-trous filter, the step size)
Launched(name, batch, arg) == [kernel |-> name, batch |-> batch, arg |-> arg]

Launch(name, arg) ==
    launches' = Append(launches, Launched(name, Len(batches), arg))

StartThreads(name, b) ==
    /\ kernel' = KernelLaunch(name, b)
    /\ todo' = LaunchedThreads
    /\ processed' = NoCount
    /\ reads' = NoCount

devvars == << kernel, todo, ray_buffer_trace, ray_buffer_shade_dielectric_and_glossy,
              retired, handed, processed, reads >>

\* int pixels_left = pixel_count;
Render_Begin ==
    /\ pc = "idle"
    /\ pc' = "while"
    /\ pixels_left' = pixel_count
    /\ launches' = << >>
    /\ batches' = << >>
    /\ UNCHANGED << confvars, host_buffer_sizes, buffer_sizes, pixel_offset,
                    batch_pixel_count, bounce, atrous_i, devvars >>

\* int pixel_count = pixels_left > batch_size ? batch_size : pixels_left;
BatchPixelCount(left, bs) == IF left > bs THEN bs ELSE left

\* while (pixels_left > 0) { ...; kernel_primary / kernel_generate .execute(...)
Batch_Begin ==
    /\ pc = "while"
    /\ todo = {}
    /\ pixels_left > 0
    /\ pixel_offset' = pixel_count - pixels_left
    /\ batch_pixel_count' = BatchPixelCount(pixels_left, batch_size)
    /\ batches' = Append(batches, << pixel_count - pixels_left,
                                     BatchPixelCount(pixels_left, batch_size) >>)
    /\ IF settings.enable_rasterization
         THEN /\ launches' = Append(launches, Launched("primary", Len(batches) + 1, 0))
              /\ StartThreads("primary", 0)
         ELSE /\ launches' = Append(launches, Launched("generate", Len(batches) + 1, 0))
              /\ StartThreads("generate", 0)
    /\ bounce' = 0
    /\ pc' = "for"
    /\ ray_buffer_trace' = StaleTrace
    /\ ray_buffer_shade_dielectric_and_glossy' = StaleMaterial
    /\ retired' = NoRetired
    /\ handed' = NoneHanded
    /\ UNCHANGED << confvars, host_buffer_sizes, buffer_sizes, pixels_left, atrous_i >>

While_Exit ==
    /\ pc = "while"
    /\ todo = {}
    /\ pixels_left <= 0
    /\ pc' = "reconstruct"
    /\ UNCHANGED << confvars, host_buffer_sizes, buffer_sizes, pixels_left, pixel_offset,
                    batch_pixel_count, bounce, atrous_i, devvars, launches, batches >>

hostlocals == << pixels_left, pixel_offset, batch_pixel_count, atrous_i >>

\* bvh_trace(buffer_sizes.trace[bounce], &buffer_sizes.rays_retired[bounce]): the
\* persistent warps pull rays until the counter has reached the queue length
bvh_trace(sizes, b) == [sizes EXCEPT !["rays_retired"][b] = sizes["trace"][b]]

\* bvh_trace_shadow(buffer_sizes.shadow[bounce], &buffer_sizes.rays_retired_shadow[bounce], bounce)
bvh_trace_shadow(sizes, b) ==
    [sizes EXCEPT !["rays_retired_shadow"][b] = sizes["shadow"][b]]

\* if (!(bounce == 0 && enable_rasterization))
TraceAndSortLaunched(b) == ~(b = 0 /\ settings.enable_rasterization)

\* for (...; bounce < NUM_BOUNCES; ...) { if (...) { kernel_trace.execute(bounce);
Launch_Trace ==
    /\ pc = "for"
    /\ todo = {}
    /\ bounce < NUM_BOUNCES
    /\ TraceAndSortLaunched(bounce)
    /\ Launch("trace", bounce)
    /\ buffer_sizes' = bvh_trace(buffer_sizes, bounce)
    /\ kernel' = KernelLaunch("trace", bounce)
    /\ pc' = "sort"
    /\ UNCHANGED << confvars, host_buffer_sizes, hostlocals, bounce, todo,
                    ray_buffer_trace, ray_buffer_shade_dielectric_and_glossy,
                    retired, handed, processed, reads, batches >>

\* kernel_sort.execute(rand(), bounce);
Launch_Sort ==
    /\ pc = "sort"
    /\ todo = {}
    /\ Launch("sort", bounce)
    /\ StartThreads("sort", bounce)
    /\ ray_buffer_shade_dielectric_and_glossy' = StaleMaterial
    /\ pc' = "diffuse"
    /\ UNCHANGED << confvars, host_buffer_sizes, buffer_sizes, hostlocals, bounce,
                    ray_buffer_trace, retired, handed, batches >>

\* bounce 0 with rasterized primary rays: neither trace nor sort
Skip_TraceSort ==
    /\ pc = "for"
    /\ todo = {}
    /\ bounce < NUM_BOUNCES
    /\ ~TraceAndSortLaunched(bounce)
    /\ pc' = "diffuse"
    /\ UNCHANGED << confvars, host_buffer_sizes, buffer_sizes, hostlocals, bounce,
                    devvars, launches, batches >>

\* if (scene_has_X) kernel_shade_X.execute(...)
LaunchShade(at, flag, name, next) ==
    /\ pc = at
    /\ todo = {}
    /\ IF flag
         THEN Launch(name, bounce) /\ StartThreads(name, bounce)
         ELSE UNCHANGED << launches, kernel, todo, processed, reads >>
    /\ pc' = next
    /\ UNCHANGED << confvars, host_buffer_sizes, buffer_sizes, hostlocals, bounce,
                    ray_buffer_trace, ray_buffer_shade_dielectric_and_glossy,
                    retired, handed, batches >>

Launch_ShadeDiffuse ==
    LaunchShade("diffuse", scene_has.diffuse, "shade_diffuse", "dielectric")

Launch_ShadeDielectric ==
    LaunchShade("dielectric", scene_has.dielectric, "shade_dielectric", "glossy")

Launch_ShadeGlossy ==
    LaunchShade("glossy", scene_has.glossy, "shade_glossy", "shadow")

\* for (int bounce = 0; bounce < NUM_BOUNCES; bounce++)
NextBounce(b) == b + 1

\* if (scene_has_lights) kernel_shadow_trace.execute(bounce); } // bounce++
Launch_ShadowTrace ==
    /\ pc = "shadow"
    /\ todo = {}
    /\ IF scene_has.lights
         THEN /\ Launch("shadow_trace", bounce)
              /\ buffer_sizes' = bvh_trace_shadow(buffer_sizes, bounce)
              /\ kernel' = KernelLaunch("shadow_trace", bounce)
         ELSE UNCHANGED << launches, buffer_sizes, kernel >>
    /\ bounce' = NextBounce(bounce)
    /\ pc' = "for"
    /\ UNCHANGED << confvars, host_buffer_sizes, hostlocals, todo,
                    ray_buffer_trace, ray_buffer_shade_dielectric_and_glossy,
                    retired, handed, processed, reads, batches >>

\* pixels_left -= batch_size; if (pixels_left > 0) { buffer_sizes.trace[0] = ...; set_value }
Batch_End ==
    /\ pc = "for"
    /\ todo = {}
    /\ bounce >= NUM_BOUNCES
    /\ pixels_left' = pixels_left - batch_size
    /\ IF pixels_left - batch_size > 0
         THEN /\ host_buffer_sizes' =
                    SetTrace0(host_buffer_sizes,
                              BatchPixelCount(pixels_left - batch_size, batch_size))
              /\ buffer_sizes' = host_buffer_sizes'
         ELSE UNCHANGED << host_buffer_sizes, buffer_sizes >>
    /\ pc' = "while"
    /\ UNCHANGED << confvars, pixel_offset, batch_pixel_count, atrous_i, bounce,
                    devvars, launches, batches >>

(***************************************************************************)
(* Host: the reconstruction stage of render (SVGF, TAA, accumulate).       *)
(***************************************************************************)
recvars == << confvars, host_buffer_sizes, buffer_sizes, pixels_left, pixel_offset,
              batch_pixel_count, bounce, devvars, batches >>

\* if (enable_svgf) { kernel_svgf_temporal.execute(); ...
Launch_Temporal ==
    /\ pc = "reconstruct"
    /\ todo = {}
    /\ settings.enable_svgf
    /\ Launch("svgf_temporal", 0)
    /\ pc' = "variance"
    /\ UNCHANGED << recvars, atrous_i >>

\* if (enable_svgf) { ... } else { kernel_accumulate.execute(...) }
AccumulateLaunched == ~settings.enable_svgf

Launch_Accumulate ==
    /\ pc = "reconstruct"
    /\ todo = {}
    /\ AccumulateLaunched
    /\ Launch("accumulate", 0)
    /\ pc' = "end"
    /\ UNCHANGED << recvars, atrous_i >>

\* if (enable_spatial_variance) kernel_svgf_variance.execute(...) else swap; i = 0
Launch_Variance ==
    /\ pc = "variance"
    /\ IF settings.enable_spatial_variance
         THEN Launch("svgf_variance", 0)
         ELSE UNCHANGED launches
    /\ atrous_i' = 0
    /\ pc' = "atrous"
    /\ UNCHANGED recvars

\* int step_size = 1 << i;
StepSize(i) == 2 ^ i

\* for (int i = 0; i < svgf_settings.atrous_iterations; i++) kernel_svgf_atrous.execute(...)
Launch_Atrous ==
    /\ pc = "atrous"
    /\ atrous_i < settings.atrous_iterations
    /\ Launch("svgf_atrous", StepSize(atrous_i))
    /\ atrous_i' = atrous_i + 1
    /\ UNCHANGED << recvars, pc >>

\* kernel_svgf_finalize.execute(...)
Launch_Finalize ==
    /\ pc = "atrous"
    /\ atrous_i >= settings.atrous_iterations
    /\ Launch("svgf_finalize", 0)
    /\ pc' = "taa"
    /\ UNCHANGED << recvars, atrous_i >>

\* if (enable_taa) { kernel_taa.execute(); kernel_taa_finalize.execute(); }
Launch_TAA ==
    /\ pc = "taa"
    /\ IF settings.enable_taa
         THEN launches' = launches \o << Launched("taa", Len(batches), 0),
                                         Launched("taa_finalize", Len(batches), 0) >>
         ELSE UNCHANGED launches
    /\ pc' = "end"
    /\ UNCHANGED << recvars, atrous_i >>

\* buffer_sizes.trace[0] = batch_size; global_buffer_sizes.set_value(buffer_sizes);
Render_End ==
    /\ pc = "end"
    /\ host_buffer_sizes' = SetTrace0(host_buffer_sizes, batch_size)
    /\ buffer_sizes' = host_buffer_sizes'
    /\ pc' = "idle"
    \* render returns: its locals are gone, what the ray buffers hold is left-over data
    /\ pixels_left' = 0
    /\ pixel_offset' = 0
    /\ batch_pixel_count' = 0
    /\ bounce' = 0
    /\ atrous_i' = 0
    /\ kernel' = NoKernel
    /\ ray_buffer_trace' = StaleTrace
    /\ ray_buffer_shade_dielectric_and_glossy' = StaleMaterial
    /\ retired' = NoRetired
    /\ handed' = NoneHanded
    /\ processed' = NoCount
    /\ reads' = NoCount
    /\ UNCHANGED << confvars, todo, launches, batches >>

(***************************************************************************)
(* The window is resized between frames: resize_free, then resize_init.    *)
(***************************************************************************)
Resize ==
    /\ pc = "idle"
    /\ \E w \in Widths, h \in Heights :
          /\ << w, h >> # << screen_width, screen_height >>
          /\ resize_init(w, h)
    /\ UNCHANGED << materials, scene_has, settings, host_buffer_sizes, buffer_sizes,
                    hostlocals, bounce, pc, devvars, launches, batches, update_call,
                    accumvars, packvars, pathvars, generate_call, latevars >>

(***************************************************************************)
(* Device.  One action per thread of a launched kernel; a thread runs its  *)
(* whole body in one step, its only shared accesses being atomic           *)
(* increments of queue counters.  A thread's inputs (the hit the trace     *)
(* stage found for its ray, its random draws, the geometry of its light    *)
(* sample) are drawn when the thread reads them.                           *)
(***************************************************************************)
hostvars == << confvars, host_buffer_sizes, pc, pixels_left, pixel_offset,
               batch_pixel_count, bounce, atrous_i, launches, batches >>

\* atomic_agg_inc(&counter): returns the value before the increment ...
atomic_agg_inc_index(sizes, q, b) == sizes[q][b]

\* ... and leaves the counter one higher
atomic_agg_inc(sizes, q, b) == [sizes EXCEPT ![q][b] = @ + 1]

Hand(h, q, b, index) == [h EXCEPT ![q][b] = Append(@, index)]

Count(f, s) == IF s \in DOMAIN f THEN [f EXCEPT ![s] = @ + 1] ELSE f

Retire(b, what) == retired' = [retired EXCEPT ![b][what] = @ + 1]

\* a thread past its kernel's index guard: if (index >= N) return;
ThreadReturns(name, i) ==
    /\ kernel.name = name
    /\ i \in todo
    /\ todo' = todo \ {i}
    /\ UNCHANGED kernel

\* what a slot of the trace buffer yields for the MIS flag (bit 31)
MisFlagsRead(ray) == IF ray.written THEN {ray.mis_eligable} ELSE BOOLEAN

\* kernel_generate: if (index >= pixel_count) return; ...
\* ray_buffer_trace.pixel_index_and_mis_eligable[index] = pixel_index | (false << 31)
GenerateMisEligable == FALSE

GenerateThread(i) ==
    /\ ThreadReturns("generate", i)
    /\ IF i >= batch_pixel_count
         THEN UNCHANGED << ray_buffer_trace, processed >>
         ELSE /\ ray_buffer_trace' = [ray_buffer_trace EXCEPT ![i] = TraceRay(GenerateMisEligable)]
              /\ processed' = Count(processed, i)
    /\ UNCHANGED << hostvars, buffer_sizes, ray_buffer_shade_dielectric_and_glossy,
                    retired, handed, reads >>

\* what a ray can hit: nothing (INVALID), or a triangle of one of the scene's materials
Hits == {"miss"} \cup materials

\* bool should_count_light_contribution = settings.enable_next_event_estimation ? !mis_eligable : true;
should_count_light_contribution(mis_eligable) ==
    IF settings.enable_next_event_estimation THEN ~mis_eligable ELSE TRUE

\* kernel_sort, the LIGHT branch: full contribution, MIS-weighted contribution, or none
LightHit(mis_eligable) ==
    IF should_count_light_contribution(mis_eligable) THEN "light_full"
    ELSE IF settings.enable_multiple_importance_sampling THEN "light_mis"
    ELSE "light_drop"

\* Russian Roulette: if (bounce > 0) { ... if (random > survival_probability) return; }
RussianRouletteApplies(b) == b > 0

\* switch (material_type): the counter each case increments
SortQueue(material_type) ==
    CASE material_type = "DIFFUSE"    -> "diffuse"
      [] material_type = "DIELECTRIC" -> "dielectric"
      [] material_type = "GLOSSY"     -> "glossy"

\* int index_out = (BATCH_SIZE - 1) - atomic_agg_inc(&buffer_sizes.glossy[bounce]);
GlossyIndexOut(n) == (BATCH_SIZE - 1) - n

\* the slot of its buffer a sorted hit is written to
SortIndexOut(material_type, n) ==
    IF material_type = "GLOSSY" THEN GlossyIndexOut(n) ELSE n

\* the hit is written to its material buffer (dielectric and glossy share one)
SortWrite(material_type, index_out) ==
    IF material_type \in {"DIELECTRIC", "GLOSSY"}
      THEN ray_buffer_shade_dielectric_and_glossy' =
               IF index_out \in Slots
                 THEN [ray_buffer_shade_dielectric_and_glossy EXCEPT ![index_out] = material_type]
                 ELSE ray_buffer_shade_dielectric_and_glossy
      ELSE UNCHANGED ray_buffer_shade_dielectric_and_glossy

\* kernel_sort up to the switch: the branch that ends the path of a ray, if any
\* (sky miss, light hit, Russian roulette), "none" if the ray goes on to the switch
TerminalHit(b, hit, mis_eligable, survives) ==
    IF hit = "miss" THEN "miss"
    ELSE IF hit = "LIGHT" THEN LightHit(mis_eligable)
    ELSE IF RussianRouletteApplies(b) /\ ~survives THEN "rr"
    ELSE "none"

\* whether control reaches switch (material_type): none of the returns above was taken
ReachesSwitch(b, hit, survives) ==
    /\ hit # "miss"
    /\ hit # "LIGHT"
    /\ ~(RussianRouletteApplies(b) /\ ~survives)

\* kernel_sort / kernel_primary from the point where the hit is known
Classify(b, hit, mis_eligable, survives) ==
    LET t == TerminalHit(b, hit, mis_eligable, survives)
    IN  /\ IF t # "none" THEN Retire(b, t) ELSE UNCHANGED retired
        /\ IF ReachesSwitch(b, hit, survives)
             THEN LET q == SortQueue(hit)
                      n == atomic_agg_inc_index(buffer_sizes, q, b)
                  IN  /\ buffer_sizes' = atomic_agg_inc(buffer_sizes, q, b)
                      /\ handed' = Hand(handed, q, b, n)
                      /\ SortWrite(hit, SortIndexOut(hit, n))
             ELSE UNCHANGED << buffer_sizes, handed,
                               ray_buffer_shade_dielectric_and_glossy >>

\* if (index >= buffer_sizes.trace[bounce]) return;
SortReturnsAtGuard(index, n) == index >= n

\* kernel_sort(rand_seed, bounce)
SortThread(i) ==
    /\ ThreadReturns("sort", i)
    /\ IF SortReturnsAtGuard(i, buffer_sizes["trace"][kernel.bounce])
         THEN UNCHANGED << buffer_sizes, ray_buffer_shade_dielectric_and_glossy,
                           retired, handed, processed, reads >>
         ELSE /\ processed' = Count(processed, i)
              /\ reads' = Count(reads, i)
              /\ \E hit \in Hits, mis_eligable \in MisFlagsRead(ray_buffer_trace[i]),
                    survives \in BOOLEAN :
                    Classify(kernel.bounce, hit, mis_eligable, survives)
    /\ UNCHANGED << hostvars, ray_buffer_trace >>

\* kernel_primary (hybrid mode): the rasterized G-buffer is the first hit of every
\* pixel of the batch, classified under the sort contract at bounce 0
PrimaryThread(i) ==
    /\ ThreadReturns("primary", i)
    /\ IF i >= batch_pixel_count
         THEN UNCHANGED << buffer_sizes, ray_buffer_shade_dielectric_and_glossy,
                           retired, handed, processed >>
         ELSE /\ processed' = Count(processed, i)
              /\ \E hit \in Hits : Classify(0, hit, FALSE, TRUE)
    /\ UNCHANGED << hostvars, ray_buffer_trace, reads >>

\* lights_total_power > 0.0f
\* a total light power that is positive in a scene without lights
lights_total_power_positive_Always == TRUE

lights_total_power_positive == "LIGHT" \in materials

\* if (bounce == settings.num_bounces - 1) return;
LastBounce(b) == b = settings.num_bounces - 1

\* nee_sample: if (cos_o > 0.0f && cos_i > 0.0f) { ... atomic_agg_inc(&buffer_sizes.shadow[bounce]) ... }
nee_sample(sizes, b, staged) ==
    IF staged THEN atomic_agg_inc(sizes, "shadow", b) ELSE sizes

nee_hand(h, sizes, b, staged) ==
    IF staged THEN Hand(h, "shadow", b, atomic_agg_inc_index(sizes, "shadow", b)) ELSE h

\* the tail shared by the shade kernels: optional shadow ray, then, unless this is
\* the last bounce, one extension ray written at the index the trace counter of
\* bounce + 1 hands out, carrying the MIS flag in bit 31
ShadeEmit(b, nee, staged, mis_eligable) ==
    LET after_nee == IF nee THEN nee_sample(buffer_sizes, b, staged) ELSE buffer_sizes
        h_nee     == IF nee THEN nee_hand(handed, buffer_sizes, b, staged) ELSE handed
    IN  IF LastBounce(b)
          THEN /\ buffer_sizes' = after_nee
               /\ handed' = h_nee
               /\ UNCHANGED ray_buffer_trace
          ELSE LET index_out == atomic_agg_inc_index(after_nee, "trace", b + 1)
               IN  /\ buffer_sizes' = atomic_agg_inc(after_nee, "trace", b + 1)
                   /\ handed' = Hand(h_nee, "trace", b + 1, index_out)
                   /\ ray_buffer_trace' =
                          IF index_out \in Slots
                            THEN [ray_buffer_trace EXCEPT ![index_out] = TraceRay(mis_eligable)]
                            ELSE ray_buffer_trace

\* ray_buffer_trace.pixel_index_and_mis_eligable[index_out] = ray_pixel_index | (true << 31)
DiffuseMisEligable == TRUE

\* kernel_shade_diffuse(rand_seed, bounce, sample_index)
ShadeDiffuseThread(i) ==
    /\ ThreadReturns("shade_diffuse", i)
    /\ IF i >= buffer_sizes["diffuse"][kernel.bounce]
         THEN UNCHANGED << buffer_sizes, ray_buffer_trace, handed, processed, reads >>
         ELSE /\ processed' = Count(processed, i)
              /\ reads' = Count(reads, i)
              /\ \E staged \in BOOLEAN :
                    ShadeEmit(kernel.bounce,
                              settings.enable_next_event_estimation
                                  /\ lights_total_power_positive,
                              staged, DiffuseMisEligable)
    /\ UNCHANGED << hostvars, ray_buffer_shade_dielectric_and_glossy, retired >>

\* ray_buffer_trace.pixel_index_and_mis_eligable[index_out] = ray_pixel_index | (false << 31)
DielectricMisEligable == FALSE

\* kernel_shade_dielectric(rand_seed, bounce)
ShadeDielectricThread(i) ==
    /\ ThreadReturns("shade_dielectric", i)
    /\ IF i >= buffer_sizes["dielectric"][kernel.bounce] \/ LastBounce(kernel.bounce)
         THEN UNCHANGED << buffer_sizes, ray_buffer_trace, handed, processed, reads >>
         ELSE /\ processed' = Count(processed, i)
              /\ reads' = Count(reads, i)
              /\ ShadeEmit(kernel.bounce, FALSE, FALSE, DielectricMisEligable)
    /\ UNCHANGED << hostvars, ray_buffer_shade_dielectric_and_glossy, retired >>

\* index = (BATCH_SIZE - 1) - index;
GlossyIndexIn(index) == (BATCH_SIZE - 1) - index

\* kernel_shade_glossy(rand_seed, bounce, sample_index); rough: material.roughness >= ROUGHNESS_CUTOFF
ShadeGlossyThread(i) ==
    /\ ThreadReturns("shade_glossy", i)
    /\ IF i >= buffer_sizes["glossy"][kernel.bounce]
         THEN UNCHANGED << buffer_sizes, ray_buffer_trace, handed, processed, reads >>
         ELSE /\ processed' = Count(processed, i)
              /\ reads' = Count(reads, GlossyIndexIn(i))
              /\ \E rough \in BOOLEAN, staged \in BOOLEAN :
                    ShadeEmit(kernel.bounce,
                              settings.enable_next_event_estimation
                                  /\ lights_total_power_positive /\ rough,
                              staged, rough)
    /\ UNCHANGED << hostvars, ray_buffer_shade_dielectric_and_glossy, retired >>

Next ==
    \/ Render_Begin
    \/ Batch_Begin
    \/ While_Exit
    \/ Launch_Trace
    \/ Launch_Sort
    \/ Skip_TraceSort
    \/ Launch_ShadeDiffuse
    \/ Launch_ShadeDielectric
    \/ Launch_ShadeGlossy
    \/ Launch_ShadowTrace
    \/ Batch_End
    \/ Launch_Temporal
    \/ Launch_Accumulate
    \/ Launch_Variance
    \/ Launch_Atrous
    \/ Launch_Finalize
    \/ Launch_TAA
    \/ Render_End
    \/ Resize
    \/ \E i \in Slots : GenerateThread(i)
    \/ \E i \in Slots : PrimaryThread(i)
    \/ \E i \in Slots : SortThread(i)
    \/ \E i \in Slots : ShadeDiffuseThread(i)
    \/ \E i \in Slots : ShadeDielectricThread(i)
    \/ \E i \in Slots : ShadeGlossyThread(i)

Spec == Init /\ [][Next]_vars

(***************************************************************************)
(* Properties.                                                             *)
(***************************************************************************)
MaterialQueues == {"diffuse", "dielectric", "glossy"}

\* the launch of kernel `name` for bounce b has run all its threads and nothing has
\* been launched since
Completed(name, b) == kernel = KernelLaunch(name, b) /\ todo = {}

\* the number of queue indices the threads of the current launch processed
ProcessedCount == Cardinality({i \in Slots : processed[i] > 0})

\* rays kernel_sort (or kernel_primary) routed to a material queue at bounce b
Routed(b) ==
    buffer_sizes["diffuse"][b] + buffer_sizes["dielectric"][b] + buffer_sizes["glossy"][b]

\* terminal hits as the specification counts them
TerminalHitsListed(b) == retired[b].miss + retired[b].light_full + retired[b].rr

\* terminal hits as kernel_sort takes them: every light hit ends the path
TerminalHitsAll(b) ==
    retired[b].miss + retired[b].light_full + retired[b].light_mis
        + retired[b].light_drop + retired[b].rr

\* the launched grid has a thread for every index of the trace queue of bounce b
GridCovers(b) == buffer_sizes["trace"][b] <= grid_dim_x * BlockDimX

C2_OneQueuePerRay ==
    [][ (kernel.name = "sort" /\ kernel' = kernel /\ todo' # todo) =>
            LET b == kernel.bounce
                d(q) == buffer_sizes'[q][b] - buffer_sizes[q][b]
                total == d("diffuse") + d("dielectric") + d("glossy")
            IN  /\ \A q \in MaterialQueues : d(q) \in {0, 1}
                /\ total <= 1
                /\ retired' # retired => total = 0
                /\ (processed' # processed /\ retired' = retired) => total = 1
                /\ \A q \in MaterialQueues, c \in Bounces \ {b} :
                       buffer_sizes'[q][c] = buffer_sizes[q][c] ]_vars

\* C2 witness: during sort of bounce 1 one ray went to the glossy queue and one
\* was killed by Russian roulette
C2_Witness ==
    /\ kernel = KernelLaunch("sort", 1)
    /\ buffer_sizes["glossy"][1] = 1
    /\ retired[1].rr = 1
    /\ Routed(1) = 1

\* the slots of the shared buffer that hold a hit of the given material type
SlotsHolding(material_type) ==
    {s \in Slots : ray_buffer_shade_dielectric_and_glossy[s] = material_type}

\* the kernels that write or read the material buffers of their bounce
SortAndShadeKernels ==
    {"primary", "sort", "shade_diffuse", "shade_dielectric", "shade_glossy"}

\* the statements of render inside the bounce loop of a batch
BounceLoopPcs == {"for", "sort", "diffuse", "dielectric", "glossy", "shadow"}

\* C3: for every bounce N_dielectric[b] + N_glossy[b] <= BATCH_SIZE; in the shared
\* buffer the dielectric hits fill the slots 0 .. N_dielectric[b] - 1 and the glossy
\* hits the slots BATCH_SIZE - 1 downward, so the two ranges never overlap (checked
\* while the bounce loop of the batch runs, from the kernel that fills the buffer
\* on); and kernel_shade_glossy reads only slots kernel_sort wrote for glossy, each
\* at most once, and by completion every one of them.
C3_SharedBufferTwoEnds ==
    /\ \A b \in Bounces :
           buffer_sizes["dielectric"][b] + buffer_sizes["glossy"][b] <= BATCH_SIZE
    /\ (pc \in BounceLoopPcs /\ kernel.name \in SortAndShadeKernels) =>
           /\ SlotsHolding("DIELECTRIC") =
                  0 .. (buffer_sizes["dielectric"][kernel.bounce] - 1)
           /\ SlotsHolding("GLOSSY") =
                  (BATCH_SIZE - buffer_sizes["glossy"][kernel.bounce]) .. (BATCH_SIZE - 1)
    /\ (pc \in BounceLoopPcs /\ kernel.name = "shade_glossy") =>
           /\ \A s \in Slots : reads[s] > 0 => s \in SlotsHolding("GLOSSY") /\ reads[s] = 1
           /\ todo = {} => {s \in Slots : reads[s] > 0} = SlotsHolding("GLOSSY")

\* C3 witness: kernel_shade_glossy has completed on a buffer that holds a dielectric
\* hit at one end and a glossy hit at the other
C3_Witness ==
    /\ Completed("shade_glossy", 0)
    /\ buffer_sizes["dielectric"][0] = 1
    /\ buffer_sizes["glossy"][0] = 1
    /\ reads[BATCH_SIZE - 1] = 1

\* ray_buffer_*.init(batch_size) in Pathtracer::init, where batch_size is BATCH_SIZE
RayBufferCapacity == BATCH_SIZE

\* the indices handed out so far by the atomic increments of queue q at bounce b
HandedOut(q, b) == {handed[q][b][k] : k \in 1 .. Len(handed[q][b])}

\* C4: no queue overflows: every queue counter of every bounce is at most the
\* capacity the host allocated for the ray buffers, and every index an atomic
\* increment produced is a valid slot of its buffer.
C4_NoOverflow ==
    \A q \in QueueNames, b \in Bounces :
        /\ buffer_sizes[q][b] <= RayBufferCapacity
        /\ HandedOut(q, b) \subseteq 0 .. (RayBufferCapacity - 1)

\* C4 witness: the worst case, every ray of a full batch produced both a shadow ray
\* and an extension ray
C4_Witness ==
    /\ buffer_sizes["shadow"][0] = BATCH_SIZE
    /\ buffer_sizes["trace"][1] = BATCH_SIZE
    /\ HandedOut("trace", 1) = Slots

\* C5: under concurrent threads every atomic increment of a queue counter returns a
\* distinct index, and whenever no kernel is running inside the bounce loop the
\* indices handed out for a queue filled by the device are exactly 0 .. N - 1.
C5_DistinctIndices ==
    \A q \in QueueNames, b \in Bounces :
        /\ Cardinality(HandedOut(q, b)) = Len(handed[q][b])
        /\ (pc \in BounceLoopPcs /\ todo = {} /\ ~(q = "trace" /\ b = 0)) =>
               HandedOut(q, b) = 0 .. (buffer_sizes[q][b] - 1)

\* C5 witness: two threads of kernel_shade_diffuse both appended to the trace queue
\* of the next bounce and to the shadow queue
C5_Witness ==
    /\ Completed("shade_diffuse", 0)
    /\ Len(handed["trace"][1]) = 2
    /\ Len(handed["shadow"][0]) = 2

\* the queue a sort or shade kernel consumes
StageQueue(name) ==
    CASE name = "sort"             -> "trace"
      [] name = "shade_diffuse"    -> "diffuse"
      [] name = "shade_dielectric" -> "dielectric"
      [] name = "shade_glossy"     -> "glossy"

\* C6 (as stated): a launch of kernel_sort or of a shade kernel for bounce b
\* processes every index 0 .. N_stage[b] - 1 of its queue exactly once and no index
\* at or beyond N_stage[b], whatever the resolution.  Stated for the batches whose
\* primary queue length is the batch's pixel count, and leaving aside
\* kernel_shade_dielectric at the last bounce, which returns before processing.
C6_Original ==
    \A name \in {"sort", "shade_diffuse", "shade_dielectric", "shade_glossy"},
       b \in Bounces :
        ( /\ Completed(name, b)
          /\ pc \in BounceLoopPcs
          /\ buffer_sizes["trace"][0] = batch_pixel_count
          /\ ~(name = "shade_dielectric" /\ LastBounce(b)) ) =>
            \A i \in Slots :
                processed[i] = IF i < buffer_sizes[StageQueue(name)][b] THEN 1 ELSE 0

\* C7 (as stated): when the bounce loop of a batch starts (the camera rays of the
\* batch have been generated, nothing of bounce 0 has been launched) every counter
\* of every bounce, rays_retired and rays_retired_shadow included, is zero, except
\* N_trace[0], which is the number of pixels of the batch.
C7_Original ==
    (pc = "for" /\ bounce = 0 /\ Completed("generate", 0)) =>
        \A c \in CounterNames, b \in Bounces :
            buffer_sizes[c][b] =
                IF c = "trace" /\ b = 0 THEN batch_pixel_count ELSE 0

\* the pixels the batches launched so far cover
Covered ==
    IF batches = << >> THEN 0
    ELSE batches[Len(batches)][1] + batches[Len(batches)][2]

\* C8: the batch loop of render terminates and tiles the frame: every batch has at
\* least one and at most batch_size pixels, the batches start at pixel 0, each one
\* starts where the one before ends, none reaches beyond pixel_count, the loop
\* cannot run without advancing, and when it has exited the batches cover
\* 0 .. pixel_count - 1.
C8_BatchesTileTheFrame ==
    pc # "idle" =>
        /\ \A k \in 1 .. Len(batches) :
               /\ batches[k][2] >= 1
               /\ batches[k][2] <= batch_size
               /\ batches[k][1] = IF k = 1 THEN 0 ELSE batches[k - 1][1] + batches[k - 1][2]
        /\ Covered <= pixel_count
        /\ (pc = "while" /\ pixels_left > 0) => (batch_size >= 1 /\ Covered < pixel_count)
        /\ (pc \in BounceLoopPcs) => pixels_left = pixel_count - batches[Len(batches)][1]
        /\ (pc \notin BounceLoopPcs /\ ~(pc = "while" /\ pixels_left > 0)) =>
               Covered = pixel_count

\* C8 witness: the loop has exited after two batches, the second shorter than the first
C8_Witness ==
    /\ pc = "reconstruct"
    /\ Len(batches) = 2
    /\ batches[2] = << BATCH_SIZE, 1 >>

\* the kernels of the path tracing stage and those of the reconstruction stage
PrimaryKernels == {"primary", "generate"}

BounceKernels ==
    {"trace", "sort", "shade_diffuse", "shade_dielectric", "shade_glossy", "shadow_trace"}

ReconstructionKernels ==
    {"svgf_temporal", "svgf_variance", "svgf_atrous", "svgf_finalize",
     "taa", "taa_finalize", "accumulate"}

\* the place of a kernel within one bounce
StageRank(name) ==
    CASE name = "trace"            -> 1
      [] name = "sort"             -> 2
      [] name = "shade_diffuse"    -> 3
      [] name = "shade_dielectric" -> 4
      [] name = "shade_glossy"     -> 5
      [] name = "shadow_trace"     -> 6

\* (batch, bounce, rank) of a launch of the path tracing stage; the generation of
\* the batch's primary rays comes before its bounce 0
Stage(e) ==
    IF e.kernel \in PrimaryKernels THEN << e.batch, -1, 0 >>
    ELSE << e.batch, e.arg, StageRank(e.kernel) >>

Before(x, y) ==
    \/ x[1] < y[1]
    \/ x[1] = y[1] /\ x[2] < y[2]
    \/ x[1] = y[1] /\ x[2] = y[2] /\ x[3] < y[3]

PathTracingLaunches == {k \in 1 .. Len(launches) : launches[k].kernel \notin ReconstructionKernels}

\* C9: within a batch the launches are ordered: first the primary-ray kernel
\* (generate or primary), then for each bounce in increasing order trace, sort,
\* shade-diffuse, shade-dielectric, shade-glossy, shadow-trace.  No kernel of bounce
\* b + 1 is launched before a kernel of bounce b of the same batch, no kernel of a
\* batch before the last kernel of the batch before it, and the first launch of
\* every batch is its primary-ray kernel.
C9_LaunchOrder ==
    /\ \A i \in PathTracingLaunches, j \in PathTracingLaunches :
           i < j => Before(Stage(launches[i]), Stage(launches[j]))
    /\ \A j \in PathTracingLaunches :
           launches[j].kernel \in BounceKernels =>
               \E i \in 1 .. (j - 1) :
                   /\ launches[i].kernel \in PrimaryKernels
                   /\ launches[i].batch = launches[j].batch
    /\ \A j \in PathTracingLaunches :
           /\ launches[j].batch \in 1 .. Len(batches)
           /\ launches[j].kernel \in BounceKernels => launches[j].arg \in 0 .. (NUM_BOUNCES - 1)

\* C9 witness: two batches of a scene with every material type, all six kernels
\* launched in both bounces of both batches
C9_Witness ==
    /\ pc = "while"
    /\ Len(batches) = 2
    /\ Len(launches) = 2 * (1 + 6 * NUM_BOUNCES)
    /\ launches[Len(launches)] = Launched("shadow_trace", 2, NUM_BOUNCES - 1)

IsReconstruction(e) == e.kernel \in ReconstructionKernels

KernelNames(log) == [k \in 1 .. Len(log) |-> log[k].kernel]

\* the reconstruction kernels launched so far in this frame, in launch order
ReconstructionChain == KernelNames(SelectSeq(launches, IsReconstruction))

Repeat(name, n) == [k \in 1 .. n |-> name]

\* the chain the settings call for
ExpectedChain(st) ==
    IF st.enable_svgf
      THEN << "svgf_temporal" >>
             \o (IF st.enable_spatial_variance THEN << "svgf_variance" >> ELSE << >>)
             \o Repeat("svgf_atrous", st.atrous_iterations)
             \o << "svgf_finalize" >>
             \o (IF st.enable_taa THEN << "taa", "taa_finalize" >> ELSE << >>)
      ELSE << "accumulate" >>

IsPrefix(x, y) == Len(x) <= Len(y) /\ x = SubSeq(y, 1, Len(x))

\* C10: reconstruction starts only after the last bounce of the last batch, and
\* exactly one chain runs per frame: with SVGF the temporal pass, the variance pass
\* if spatial variance is enabled, the configured number of A-trous iterations, the
\* finalize pass, then TAA and TAA-finalize if TAA is enabled; without SVGF only
\* accumulate.  TAA never runs without SVGF and accumulate never with it.
C10_OneReconstructionChain ==
    /\ \A i \in 1 .. Len(launches), j \in 1 .. Len(launches) :
           (i < j /\ IsReconstruction(launches[i])) => IsReconstruction(launches[j])
    /\ (ReconstructionChain # << >> /\ pc # "idle") =>
           /\ pc \notin BounceLoopPcs \cup {"while"}
           /\ Covered = pixel_count
    /\ pc # "idle" => IsPrefix(ReconstructionChain, ExpectedChain(settings))
    /\ pc = "end" => ReconstructionChain = ExpectedChain(settings)
    /\ \A k \in 1 .. Len(launches) :
           /\ launches[k].kernel \in {"taa", "taa_finalize"} => settings.enable_svgf
           /\ launches[k].kernel = "accumulate" => ~settings.enable_svgf

\* C10 witness: a frame ended with the longest chain: temporal, variance, A-trous,
\* finalize, TAA, TAA-finalize
C10_Witness ==
    /\ pc = "end"
    /\ settings.enable_svgf /\ settings.enable_spatial_variance /\ settings.enable_taa
    /\ settings.atrous_iterations = MAX_ATROUS_ITERATIONS
    /\ ReconstructionChain =
           << "svgf_temporal", "svgf_variance" >>
               \o Repeat("svgf_atrous", MAX_ATROUS_ITERATIONS)
               \o << "svgf_finalize", "taa", "taa_finalize" >>

(***************************************************************************)
(* Pathtracer::update, called once per frame.  settings_changed is set by  *)
(* the user interface and camera.moved by Camera::update; both are inputs  *)
(* of the call.                                                            *)
(***************************************************************************)
MaxFramesSinceMoved == 258

FrameCounterMask == 255

\* bitwise AND of two non-negative integers
RECURSIVE BitAnd(_, _)
BitAnd(a, b) ==
    IF a = 0 \/ b = 0 THEN 0
    ELSE (a % 2) * (b % 2) + 2 * BitAnd(a \div 2, b \div 2)

\* everything Pathtracer::render and resize_init work on
rendervars == << screen_width, screen_height, pixel_count, batch_size, grid_dim_x,
                 materials, scene_has, host_buffer_sizes, buffer_sizes,
                 pc, pixels_left, pixel_offset, batch_pixel_count, bounce, atrous_i,
                 kernel, todo, ray_buffer_trace, ray_buffer_shade_dielectric_and_glossy,
                 retired, handed, processed, reads, launches, batches >>

\* update with the camera test ahead of the SVGF test
update_CameraFirst(old, settings_changed, enable_svgf, moved) ==
    IF settings_changed THEN 0
    ELSE IF moved THEN 0
    ELSE IF enable_svgf THEN BitAnd(old + 1, FrameCounterMask)
    ELSE old + 1

\* the value update leaves in frames_since_camera_moved
update(old, settings_changed, enable_svgf, moved) ==
    IF settings_changed THEN 0
    ELSE IF enable_svgf THEN BitAnd(old + 1, FrameCounterMask)
    ELSE IF moved THEN 0
    ELSE old + 1

UpdateUpTo(cap) ==
    \E settings_changed \in BOOLEAN, moved \in BOOLEAN :
        /\ update(frames_since_camera_moved, settings_changed,
                  settings.enable_svgf, moved) <= cap
        /\ frames_since_camera_moved' =
               update(frames_since_camera_moved, settings_changed,
                      settings.enable_svgf, moved)
        /\ update_call' = [called |-> TRUE, settings_changed |-> settings_changed,
                           enable_svgf |-> settings.enable_svgf, moved |-> moved,
                           old |-> frames_since_camera_moved]
        /\ UNCHANGED << rendervars, settings, accumvars, packvars, pathvars,
                        generate_call, latevars >>

Update == UpdateUpTo(MaxFramesSinceMoved)

\* the user switches SVGF on or off between two frames
ToggleSvgf ==
    /\ settings' = [settings EXCEPT !.enable_svgf = ~@]
    /\ UNCHANGED << rendervars, casevars >>

UpdateConfigurations ==
    {c \in Configurations : c.materials = {} /\ PlainAccumulate(c.settings)
                              /\ c.settings.num_bounces = NUM_BOUNCES
                              /\ ~c.settings.enable_rasterization
                              /\ ~c.settings.enable_next_event_estimation
                              /\ ~c.settings.enable_multiple_importance_sampling}

UpdateInit ==
    \E c \in UpdateConfigurations : InitAt(1, 1, c) /\ CaseIdle

UpdateNext ==
    \/ Update
    \/ ToggleSvgf

UpdateSpec == UpdateInit /\ [][UpdateNext]_vars

\* C11: each call of update changes frames_since_camera_moved by exactly one rule,
\* in this priority: settings changed -> 0; else SVGF enabled -> (old + 1) mod 256,
\* even if the camera moved; else camera moved -> 0; else old + 1.  After a call
\* made with SVGF enabled the counter is within 0 .. 255.
C11_UpdateRule ==
    update_call.called =>
        /\ frames_since_camera_moved =
               IF update_call.settings_changed THEN 0
               ELSE IF update_call.enable_svgf THEN (update_call.old + 1) % 256
               ELSE IF update_call.moved THEN 0
               ELSE update_call.old + 1
        /\ update_call.enable_svgf => frames_since_camera_moved \in 0 .. 255

\* C11 witness: with SVGF enabled and the counter at 255, an update in which the
\* camera moved wrapped the counter to 0 by the SVGF rule
C11_Witness ==
    /\ update_call.called
    /\ ~update_call.settings_changed /\ update_call.enable_svgf /\ update_call.moved
    /\ update_call.old = 255
    /\ frames_since_camera_moved = 0

(***************************************************************************)
(* kernel_accumulate on one pixel, over a sequence of frames rendered with *)
(* SVGF disabled.  Colours are exact fractions; the colour of a frame      *)
(* (direct + indirect, modulated) is an input of the frame.                *)
(***************************************************************************)
MaxAccumulatedFrames == 3

MaxColour == 2

\* the accumulator is followed while its denominator stays within this bound
MaxDenominator == 6

Colours == 0 .. MaxColour

RECURSIVE Gcd(_, _)
Gcd(a, b) == IF b = 0 THEN a ELSE Gcd(b, a % b)

Abs(a) == IF a < 0 THEN -a ELSE a

\* a fraction in lowest terms with a positive denominator
Reduced(num, den) ==
    LET g == Gcd(Abs(num), den)
    IN  Fraction(num \div g, den \div g)

\* colour_prev + (colour - colour_prev) / frames_accumulated
OnlineAverage(colour_prev, colour, frames_accumulated) ==
    Reduced(colour_prev.num * frames_accumulated
                + colour * colour_prev.den - colour_prev.num,
            colour_prev.den * frames_accumulated)

\* kernel_accumulate(frames_accumulated): the value it stores in the accumulator
kernel_accumulate(colour_prev, colour, frames_accumulated) ==
    IF frames_accumulated > 0
      THEN OnlineAverage(colour_prev, colour, frames_accumulated)
      ELSE Fraction(colour, 1)

\* update() at the start of a frame
Frame_Update == UpdateUpTo(MaxAccumulatedFrames)

\* render() of a frame: ... else kernel_accumulate.execute(..., float(frames_since_camera_moved))
Frame_Accumulate ==
    /\ ~settings.enable_svgf
    /\ \E colour \in Colours :
          /\ kernel_accumulate(accumulator, colour, frames_since_camera_moved).den
                 <= MaxDenominator
          /\ accumulator' =
                 kernel_accumulate(accumulator, colour, frames_since_camera_moved)
          /\ rendered' =
                 IF frames_since_camera_moved = 0
                   THEN [consecutive |-> TRUE, colours |-> << colour >>]
                 ELSE IF rendered.consecutive
                         /\ frames_since_camera_moved = Len(rendered.colours)
                   THEN [rendered EXCEPT !.colours = Append(@, colour)]
                 ELSE [consecutive |-> FALSE, colours |-> << >>]
    /\ UNCHANGED << rendervars, settings, frames_since_camera_moved, update_call,
                    packvars, pathvars, generate_call, latevars >>

AccumulateInit ==
    \E c \in UpdateConfigurations : InitAt(1, 1, c) /\ CaseIdle

AccumulateNext ==
    \/ Frame_Update
    \/ Frame_Accumulate

AccumulateSpec == AccumulateInit /\ [][AccumulateNext]_vars

RECURSIVE SumOf(_)
SumOf(seq) == IF seq = << >> THEN 0 ELSE Head(seq) + SumOf(Tail(seq))

\* C12 (as stated): with SVGF disabled, after consecutive frames in which
\* frames_since_camera_moved took the values 0, 1, ..., n (n >= 1) without a reset
\* in between, the accumulator of a pixel is the arithmetic mean of the colours of
\* all n + 1 of those frames.
C12_Original ==
    (rendered.consecutive /\ Len(rendered.colours) >= 2) =>
        accumulator.num * Len(rendered.colours) = accumulator.den * SumOf(rendered.colours)

(***************************************************************************)
(* pixel_index_and_mis_eligable: one unsigned word holds the pixel index   *)
(* and, in its top bit, the MIS flag.  The word is WordBits wide here (32  *)
(* in the source), FlagShift is the 31 of the source.                      *)
(***************************************************************************)
WordBits == 8

FlagShift == WordBits - 1

RECURSIVE Pow2(_)
Pow2(n) == IF n = 0 THEN 1 ELSE 2 * Pow2(n - 1)

RECURSIVE BitOr(_, _)
BitOr(a, b) ==
    IF a = 0 THEN b
    ELSE IF b = 0 THEN a
    ELSE (IF a % 2 = 1 \/ b % 2 = 1 THEN 1 ELSE 0) + 2 * BitOr(a \div 2, b \div 2)

\* x << n, kept to the width of the word
ShiftLeft(x, n) == (x * Pow2(n)) % Pow2(WordBits)

\* x >> n on an unsigned word
ShiftRight(x, n) == x \div Pow2(n)

\* ~x on a word
BitNot(x) == Pow2(WordBits) - 1 - x

\* a bool converted to int
BoolInt(f) == IF f THEN 1 ELSE 0

\* pixel_index | (mis_eligable << 31)
Pack(ray_pixel_index, mis_eligable) ==
    BitOr(ray_pixel_index, ShiftLeft(BoolInt(mis_eligable), FlagShift))

\* the pixel mask taken one bit lower: ~(0b11 << 30)
UnpackPixelIndex_Shift30(word) == BitAnd(word, BitNot(ShiftLeft(3, FlagShift - 1)))

\* ray_pixel_index_and_mis_eligable & ~(0b11 << 31)
UnpackPixelIndex(word) == BitAnd(word, BitNot(ShiftLeft(3, FlagShift)))

\* ray_pixel_index_and_mis_eligable >> 31
UnpackFlag(word) == ShiftRight(word, FlagShift)

PixelIndices == 0 .. Pow2(FlagShift) - 1

\* a producer stores the word
Word_Pack ==
    /\ ~packed_word.written
    /\ packed_word' = [written |-> TRUE,
                       word |-> Pack(pack_in.pixel_index, pack_in.mis_eligable)]
    /\ UNCHANGED << rendervars, settings, frames_since_camera_moved, update_call,
                    accumvars, pack_in, unpacked, pathvars, generate_call, latevars >>

\* kernel_sort loads the word and takes it apart
Word_Unpack ==
    /\ packed_word.written
    /\ ~unpacked.read
    /\ unpacked' = [read |-> TRUE,
                    pixel_index |-> UnpackPixelIndex(packed_word.word),
                    flag |-> UnpackFlag(packed_word.word)]
    /\ UNCHANGED << rendervars, settings, frames_since_camera_moved, update_call,
                    accumvars, pack_in, packed_word, pathvars, generate_call,
                    latevars >>

PackInit ==
    /\ \E c \in UpdateConfigurations : InitAt(1, 1, c)
    /\ FrameIdle /\ PathIdle /\ GenerateIdle /\ LateIdle
    /\ pack_in \in [pixel_index : PixelIndices, mis_eligable : BOOLEAN]
    /\ packed_word = NoWord
    /\ unpacked = NoneUnpacked

PackNext ==
    \/ Word_Pack
    \/ Word_Unpack

PackSpec == PackInit /\ [][PackNext]_vars

\* C18: for every pixel index p below 2^31 and flag f in {0, 1}, packing
\* p | (f << 31) and unpacking (pixel = word & ~(0b11 << 31), flag = word >> 31,
\* in arithmetic modulo the word) returns exactly (p, f).
C18_PackRoundTrip ==
    unpacked.read =>
        /\ unpacked.pixel_index = pack_in.pixel_index
        /\ unpacked.flag = BoolInt(pack_in.mis_eligable)

\* C18 witness: the largest pixel index with the flag set came back intact
C18_Witness ==
    /\ unpacked.read
    /\ pack_in.pixel_index = Pow2(FlagShift) - 1
    /\ pack_in.mis_eligable
    /\ packed_word.word = Pow2(WordBits) - 1
    /\ unpacked.pixel_index = Pow2(FlagShift) - 1
    /\ unpacked.flag = 1

(***************************************************************************)
(* One path followed from kernel_generate through kernel_sort and the      *)
(* shade kernels, bounce after bounce, with the values kernel_sort         *)
(* computes: throughput, albedo, emission and pdfs are exact fractions,    *)
(* colours are triples of them.  Inf and NaN are the results float         *)
(* arithmetic gives for x / 0 and 0 / 0.  What the shadow kernel adds to   *)
(* the frame buffers is outside this part.                                 *)
(***************************************************************************)
PathBounces == 3

Inf == Fraction(1, 0)

NaN == Fraction(0, 0)

\* a * b in float arithmetic on non-negative values
FMul(a, b) ==
    IF a = NaN \/ b = NaN THEN NaN
    ELSE IF a = Inf \/ b = Inf THEN (IF a.num = 0 \/ b.num = 0 THEN NaN ELSE Inf)
    ELSE Reduced(a.num * b.num, a.den * b.den)

\* a / b in float arithmetic on non-negative values
FDiv(a, b) ==
    IF a = NaN \/ b = NaN THEN NaN
    ELSE IF b = Inf THEN (IF a = Inf THEN NaN ELSE Zero)
    ELSE IF a = Inf THEN Inf
    ELSE IF b.num = 0 THEN (IF a.num = 0 THEN NaN ELSE Inf)
    ELSE Reduced(a.num * b.den, a.den * b.num)

\* a + b in float arithmetic on non-negative values
FAdd(a, b) ==
    IF a = NaN \/ b = NaN THEN NaN
    ELSE IF a = Inf \/ b = Inf THEN Inf
    ELSE Reduced(a.num * b.den + b.num * a.den, a.den * b.den)

\* a > b; false when either is NaN
FGreater(a, b) ==
    IF a = NaN \/ b = NaN THEN FALSE
    ELSE IF b = Inf THEN FALSE
    ELSE IF a = Inf THEN TRUE
    ELSE a.num * b.den > b.num * a.den

\* fmaxf: a NaN operand is ignored
FMax(a, b) ==
    IF a = NaN THEN b
    ELSE IF b = NaN THEN a
    ELSE IF FGreater(b, a) THEN b ELSE a

\* vmax_max(x, y, z)
vmax_max(x, y, z) == FMax(FMax(x, y), z)

\* saturate: clamp to [0, 1]; NaN becomes 0
saturate(a) ==
    IF a = NaN THEN Zero
    ELSE IF FGreater(a, One) THEN One
    ELSE a

\* float3 operators
VMul(u, v) == [i \in 1 .. 3 |-> FMul(u[i], v[i])]

VAdd(u, v) == [i \in 1 .. 3 |-> FAdd(u[i], v[i])]

VScale(u, a) == [i \in 1 .. 3 |-> FMul(u[i], a)]

VDiv(u, a) == [i \in 1 .. 3 |-> FDiv(u[i], a)]

\* the values drawn for sky, emission, albedo, pdfs and random numbers
SkyColours == {Black, White}

Emissions == {White, << Half, Zero, Zero >>}

Albedos == {Black, White, << Half, Zero, Zero >>}

Pdfs == {Zero, One}

Cosines == {Half, One}

Draws == {Zero, Half, Fraction(3, 4)}

\* lights_total_power of the scene, and the squared distance to the light hit
lights_total_power == Fraction(3, 1)

distance_to_light_squared == One

\* float power = emission.x + emission.y + emission.z;
\* float light_pdf = power * distance_to_light_squared / (cos_o * lights_total_power);
LightPdf(emission, cos_o) ==
    FDiv(FMul(FAdd(FAdd(emission[1], emission[2]), emission[3]),
              distance_to_light_squared),
         FMul(cos_o, lights_total_power))

\* the light hit counted without its MIS weight
MisIllumination_Unweighted(ray_throughput, emission, brdf_pdf, light_pdf) ==
    VMul(ray_throughput, emission)

\* float3 illumination = ray_throughput * material_light.emission * brdf_pdf / mis_pdf;
MisIllumination(ray_throughput, emission, brdf_pdf, light_pdf) ==
    VDiv(VScale(VMul(ray_throughput, emission), brdf_pdf), FAdd(brdf_pdf, light_pdf))

\* settings.modulate_albedo || settings.enable_svgf
AlbedoKept == path.modulate_albedo \/ settings.enable_svgf

\* every deposit made into the direct buffer
Deposit_AllDirect(fb, b, illumination) ==
    [fb EXCEPT !.direct = VAdd(@, illumination)]

\* if (bounce == 0) direct = ...; else if (bounce == 1) direct += ...; else indirect += ...;
\* at bounce 0 the albedo buffer is set to 1 when it is kept
Deposit(fb, b, illumination) ==
    IF b = 0
      THEN [fb EXCEPT !.direct = illumination,
                      !.albedo = IF AlbedoKept THEN White ELSE @]
    ELSE IF b = 1
      THEN [fb EXCEPT !.direct = VAdd(@, illumination)]
      ELSE [fb EXCEPT !.indirect = VAdd(@, illumination)]

\* the MIS branch: if (bounce == 1) direct += ...; else indirect += ...;
DepositMis(fb, b, illumination) ==
    IF b = 1
      THEN [fb EXCEPT !.direct = VAdd(@, illumination)]
      ELSE [fb EXCEPT !.indirect = VAdd(@, illumination)]

\* (history) what the frame's own deposits into direct (bounces 0 and 1) and
\* indirect (later bounces) add up to
Contributed(sum, b, illumination) ==
    IF b <= 1
      THEN [sum EXCEPT !.direct = VAdd(@, illumination)]
      ELSE [sum EXCEPT !.indirect = VAdd(@, illumination)]

\* the pixel of the path: the last one of the frame
PathPixel == pixel_count - 1

\* if (bounce <= 1) ray_throughput = 1; else ray_throughput = ray_buffer_trace.throughput.get(index);
SortThroughput(b) == IF b <= 1 THEN White ELSE path.throughput

\* if (bounce == 0) ray_throughput = 1; else ray_throughput = <buffer>.throughput.get(index);
ShadeThroughput(b) == IF b = 0 THEN White ELSE path.throughput

\* kernel_generate writes the camera ray of the pixel
Path_Generate ==
    /\ path.stage = "none"
    /\ path' = [path EXCEPT !.stage = "trace", !.bounce = 0,
                            !.word = Pack(PathPixel, GenerateMisEligable),
                            !.producer = "generate", !.rough = FALSE,
                            !.carried = White]
    /\ UNCHANGED << rendervars, settings, frames_since_camera_moved, update_call,
                    accumvars, packvars, generate_call, latevars,
                    frame_buffer, sort_step >>

\* kernel_sort on the ray of the path.  path.throughput is the throughput slot of
\* the ray's buffer entry, written only where the kernels write it; path.carried
\* (history) is the value of the writing thread's ray_throughput / throughput
\* variable when it wrote the entry
Path_Sort ==
    /\ path.stage = "trace"
    /\ LET b == path.bounce
           mis_eligable == UnpackFlag(path.word) # 0
           ray_throughput == SortThroughput(b)
           step == [NoSortStep EXCEPT !.done = TRUE, !.bounce = b,
                                      !.mis_eligable = mis_eligable,
                                      !.producer = path.producer, !.rough = path.rough,
                                      !.throughput = ray_throughput,
                                      !.before = frame_buffer]
       IN  \E hit \in {"miss"} \cup MaterialTypes :
             IF hit = "miss"
               THEN \E sky \in SkyColours :
                      LET illumination == VMul(ray_throughput, sky)
                      IN  /\ frame_buffer' = Deposit(frame_buffer, b, illumination)
                          /\ path' = [path EXCEPT
                                 !.stage = "ended",
                                 !.contributed = Contributed(@, b, illumination)]
                          /\ sort_step' = [step EXCEPT !.hit = hit, !.outcome = "miss",
                                                       !.contribution = illumination]
             ELSE IF hit = "LIGHT"
               THEN \E emission \in Emissions, cos_o \in Cosines :
                      LET brdf_pdf == path.last_pdf
                          light_pdf == LightPdf(emission, cos_o)
                          outcome == LightHit(mis_eligable)
                          illumination ==
                              IF outcome = "light_full"
                                THEN VMul(ray_throughput, emission)
                              ELSE IF outcome = "light_mis"
                                THEN MisIllumination(ray_throughput, emission,
                                                     brdf_pdf, light_pdf)
                                ELSE Black
                      IN  /\ frame_buffer' =
                                 IF outcome = "light_full"
                                   THEN Deposit(frame_buffer, b,
                                                IF b = 0 THEN emission ELSE illumination)
                                 ELSE IF outcome = "light_mis"
                                   THEN DepositMis(frame_buffer, b, illumination)
                                   ELSE frame_buffer
                          /\ path' = [path EXCEPT
                                 !.stage = "ended",
                                 !.contributed =
                                     IF outcome = "light_full"
                                       THEN Contributed(@, b, IF b = 0 THEN emission
                                                                      ELSE illumination)
                                     ELSE IF outcome = "light_mis"
                                       THEN Contributed(@, b, illumination)
                                       ELSE @]
                          /\ sort_step' = [step EXCEPT !.hit = hit, !.outcome = outcome,
                                                       !.contribution = illumination,
                                                       !.emission = emission,
                                                       !.brdf_pdf = brdf_pdf,
                                                       !.light_pdf = light_pdf]
               ELSE \E draw \in Draws :
                      LET throughput_with_albedo == VMul(ray_throughput, frame_buffer.albedo)
                          survival_probability ==
                              saturate(vmax_max(throughput_with_albedo[1],
                                                throughput_with_albedo[2],
                                                throughput_with_albedo[3]))
                          survives == ~FGreater(draw, survival_probability)
                          scaled == IF RussianRouletteApplies(b)
                                      THEN VDiv(ray_throughput, survival_probability)
                                      ELSE ray_throughput
                          rr == [step EXCEPT !.hit = hit,
                                             !.roulette = RussianRouletteApplies(b),
                                             !.survival_probability =
                                                 IF RussianRouletteApplies(b)
                                                   THEN survival_probability ELSE Zero,
                                             !.draw = IF RussianRouletteApplies(b)
                                                        THEN draw ELSE Zero]
                      IN  /\ RussianRouletteApplies(b) \/ draw = Zero
                          /\ UNCHANGED frame_buffer
                          /\ IF ReachesSwitch(b, hit, survives)
                               THEN /\ path' = [path EXCEPT
                                          !.stage = hit,
                                          !.throughput = IF b > 0 THEN scaled ELSE @,
                                          !.carried = scaled]
                                    /\ sort_step' = [rr EXCEPT !.outcome = "queued",
                                                               !.queue = SortQueue(hit),
                                                               !.queued_throughput = scaled]
                               ELSE /\ path' = [path EXCEPT !.stage = "ended"]
                                    /\ sort_step' = [rr EXCEPT !.outcome = "killed"]
    /\ UNCHANGED << rendervars, settings, frames_since_camera_moved, update_call,
                    accumvars, packvars, generate_call, latevars >>

\* the tail of a shade kernel: the extension ray of the next bounce
PathExtend(b, throughput, mis_eligable, last_pdf, producer, rough) ==
    path' = [path EXCEPT !.stage = "trace", !.bounce = b + 1,
                         !.word = Pack(PathPixel, mis_eligable),
                         !.throughput = IF b > 0 THEN throughput ELSE @,
                         !.carried = throughput,
                         !.last_pdf = last_pdf,
                         !.producer = producer, !.rough = rough]

\* the albedo write of shade-diffuse and shade-glossy at bounce 0
ShadeAlbedo(b, albedo) ==
    frame_buffer' = IF b = 0 /\ AlbedoKept
                      THEN [frame_buffer EXCEPT !.albedo = albedo]
                      ELSE frame_buffer

\* kernel_shade_diffuse on the ray of the path
Path_ShadeDiffuse ==
    /\ path.stage = "DIFFUSE"
    /\ LET b == path.bounce
       IN  \E albedo \in Albedos, pdf \in Pdfs :
             LET throughput == IF b > 0 THEN VMul(ShadeThroughput(b), albedo)
                                        ELSE ShadeThroughput(b)
             IN  /\ ShadeAlbedo(b, albedo)
                 /\ IF LastBounce(b)
                      THEN path' = [path EXCEPT !.stage = "ended"]
                      ELSE PathExtend(b, throughput, DiffuseMisEligable, pdf,
                                      "shade_diffuse", FALSE)
    /\ UNCHANGED << rendervars, settings, frames_since_camera_moved, update_call,
                    accumvars, packvars, generate_call, latevars, sort_step >>

\* kernel_shade_dielectric on the ray of the path; absorption is the Lambert-Beer
\* factor applied when the ray leaves the material (1 when it enters)
Path_ShadeDielectric ==
    /\ path.stage = "DIELECTRIC"
    /\ LET b == path.bounce
       IN  IF LastBounce(b)
             THEN /\ path' = [path EXCEPT !.stage = "ended"]
                  /\ UNCHANGED frame_buffer
             ELSE \E absorption \in {White, << Half, Half, Half >>} :
                    /\ frame_buffer' = IF b = 0 /\ AlbedoKept
                                         THEN [frame_buffer EXCEPT !.albedo = White]
                                         ELSE frame_buffer
                    /\ path' = [path EXCEPT
                           !.stage = "trace", !.bounce = b + 1,
                           !.word = Pack(PathPixel, DielectricMisEligable),
                           !.throughput = IF b > 0
                                            THEN VMul(ShadeThroughput(b), absorption)
                                            ELSE @,
                           !.carried = VMul(ShadeThroughput(b), absorption),
                           !.producer = "shade_dielectric", !.rough = FALSE]
    /\ UNCHANGED << rendervars, settings, frames_since_camera_moved, update_call,
                    accumvars, packvars, generate_call, latevars, sort_step >>

\* kernel_shade_glossy on the ray of the path; rough: material.roughness >= ROUGHNESS_CUTOFF
Path_ShadeGlossy ==
    /\ path.stage = "GLOSSY"
    /\ LET b == path.bounce
       IN  \E albedo \in Albedos, weight \in Pdfs, rough \in BOOLEAN :
             LET throughput == IF b > 0 THEN VMul(ShadeThroughput(b), albedo)
                                        ELSE ShadeThroughput(b)
             IN  /\ ShadeAlbedo(b, albedo)
                 /\ IF LastBounce(b)
                      THEN path' = [path EXCEPT !.stage = "ended"]
                      ELSE PathExtend(b, throughput, rough, weight, "shade_glossy", rough)
    /\ UNCHANGED << rendervars, settings, frames_since_camera_moved, update_call,
                    accumvars, packvars, generate_call, latevars, sort_step >>

\* scenes with every material, plain accumulation, PathBounces bounces; the frame
\* buffers of the pixel hold what an earlier frame left
PathInit ==
    /\ \E c \in Configurations :
          /\ c.materials = MaterialTypes
          /\ PlainAccumulate(c.settings)
          /\ ~c.settings.enable_rasterization
          /\ c.settings.num_bounces = NUM_BOUNCES
          /\ InitAt(MaxWidth, 1, [c EXCEPT !.settings.num_bounces = PathBounces])
    /\ FrameIdle /\ PackIdle /\ GenerateIdle /\ LateIdle
    /\ \E modulate_albedo \in BOOLEAN :
          path = [NoPath EXCEPT !.modulate_albedo = modulate_albedo]
    /\ \E direct \in {Black, White} :
          frame_buffer = [direct |-> direct, indirect |-> << Half, Half, Half >>,
                          albedo |-> White]
    /\ sort_step = NoSortStep

PathNext ==
    \/ Path_Generate
    \/ Path_Sort
    \/ Path_ShadeDiffuse
    \/ Path_ShadeDielectric
    \/ Path_ShadeGlossy

PathSpec == PathInit /\ [][PathNext]_vars

\* the last kernel_sort thread ended the path with a deposit into the frame buffers
SortDeposited ==
    /\ sort_step.done
    /\ sort_step.outcome \in {"miss", "light_full", "light_mis"}

\* C13: for every radiance contribution kernel_sort deposits (sky miss or light
\* hit) for a ray at bounce b: at b = 0 the pixel's direct value is overwritten
\* with the contribution, at b = 1 the contribution is added to direct, at b >= 2
\* it is added to indirect; sort never writes indirect at b <= 1 and never writes
\* direct at b >= 2.
C13_DepositByBounce ==
    SortDeposited =>
        /\ sort_step.bounce = 0 =>
              /\ frame_buffer.direct = sort_step.contribution
              /\ frame_buffer.indirect = sort_step.before.indirect
        /\ sort_step.bounce = 1 =>
              /\ frame_buffer.direct =
                     VAdd(sort_step.before.direct, sort_step.contribution)
              /\ frame_buffer.indirect = sort_step.before.indirect
        /\ sort_step.bounce >= 2 =>
              /\ frame_buffer.indirect =
                     VAdd(sort_step.before.indirect, sort_step.contribution)
              /\ frame_buffer.direct = sort_step.before.direct

\* C13 witness: a MIS-weighted light hit at bounce 2 changed indirect and left
\* direct alone
C13_Witness ==
    /\ SortDeposited
    /\ sort_step.bounce = 2
    /\ sort_step.outcome = "light_mis"
    /\ frame_buffer.indirect # sort_step.before.indirect
    /\ frame_buffer.direct = sort_step.before.direct

\* the buffer a deposit of kernel_sort at bounce b goes to, by the stated rule
TargetBuffer(fb, b) == IF b <= 1 THEN fb.direct ELSE fb.indirect

\* C14: when kernel_sort processes a light hit: if NEE is disabled or the ray is
\* not MIS-eligible the full emissive contribution is added to the frame;
\* otherwise, if MIS is enabled, emission * brdf_pdf / (brdf_pdf + light_pdf)
\* (times the throughput) is added; otherwise nothing is added.  In all three
\* cases the path ends and the ray enters no material queue.
C14_LightHit ==
    (sort_step.done /\ sort_step.hit = "LIGHT") =>
        LET b == sort_step.bounce
            full == VMul(sort_step.throughput, sort_step.emission)
            weighted == [i \in 1 .. 3 |->
                            FDiv(FMul(full[i], sort_step.brdf_pdf),
                                 FAdd(sort_step.brdf_pdf, sort_step.light_pdf))]
            added == IF ~settings.enable_next_event_estimation \/ ~sort_step.mis_eligable
                       THEN full
                     ELSE IF settings.enable_multiple_importance_sampling
                       THEN weighted
                       ELSE Black
            dropped == /\ settings.enable_next_event_estimation
                       /\ sort_step.mis_eligable
                       /\ ~settings.enable_multiple_importance_sampling
        IN  /\ dropped =>
                  /\ frame_buffer.direct = sort_step.before.direct
                  /\ frame_buffer.indirect = sort_step.before.indirect
            /\ ~dropped =>
                  TargetBuffer(frame_buffer, b) =
                      IF b = 0 THEN added
                               ELSE VAdd(TargetBuffer(sort_step.before, b), added)
            /\ path.stage = "ended"
            /\ sort_step.queue = "none"

\* C14 witness: with NEE and MIS enabled, a MIS-eligible ray hit a white light at
\* bounce 1 with brdf_pdf = 1 and light_pdf = 2, and a third of the emission was added
C14_Witness ==
    /\ sort_step.done /\ sort_step.hit = "LIGHT"
    /\ settings.enable_next_event_estimation
    /\ settings.enable_multiple_importance_sampling
    /\ sort_step.mis_eligable
    /\ sort_step.bounce = 1
    /\ sort_step.emission = White
    /\ sort_step.brdf_pdf = One
    /\ sort_step.light_pdf = Fraction(2, 1)
    /\ sort_step.before.direct = Black
    /\ frame_buffer.direct = << Fraction(1, 3), Fraction(1, 3), Fraction(1, 3) >>
    /\ path.stage = "ended"

\* the ray is still in the material queue kernel_sort put it in
StillQueued ==
    /\ sort_step.done
    /\ sort_step.outcome = "queued"
    /\ path.stage = sort_step.hit
    /\ path.bounce = sort_step.bounce

\* C15: Russian roulette is applied in kernel_sort only to non-light hits at
\* bounce b >= 1 and never at bounce 0; it is decided before any queue counter is
\* incremented, so a killed ray occupies no material-queue slot, and a surviving
\* ray is queued with its throughput divided by the survival probability.
C15_RussianRoulette ==
    sort_step.done =>
        /\ sort_step.roulette =>
              /\ sort_step.bounce >= 1
              /\ sort_step.hit \notin {"miss", "LIGHT"}
        /\ sort_step.outcome = "killed" =>
              /\ sort_step.roulette
              /\ sort_step.queue = "none"
              /\ path.stage = "ended"
        /\ (sort_step.outcome = "queued" /\ sort_step.roulette) =>
              /\ sort_step.queue = SortQueue(sort_step.hit)
              /\ IF sort_step.survival_probability = Zero
                   THEN \A i \in 1 .. 3 : sort_step.queued_throughput[i].den = 0
                   ELSE VScale(sort_step.queued_throughput,
                               sort_step.survival_probability) = sort_step.throughput
              /\ StillQueued => path.throughput = sort_step.queued_throughput

\* C15 witness: at bounce 2 a ray of throughput 1 survived with probability 1/2
\* and sits in its queue with throughput 2
C15_Witness ==
    /\ StillQueued
    /\ sort_step.roulette
    /\ sort_step.bounce = 2
    /\ sort_step.survival_probability = Half
    /\ sort_step.throughput = White
    /\ path.throughput = << Fraction(2, 1), Fraction(2, 1), Fraction(2, 1) >>

\* C16 (as stated): at bounce b >= 1 a non-light hit whose throughput * albedo is
\* zero in every component (survival probability 0) is always terminated by
\* Russian roulette, for every value of the random draw including 0; it is never
\* written to a material queue and its throughput is never divided by zero.
C16_Original ==
    (sort_step.done /\ sort_step.roulette
         /\ sort_step.survival_probability = Zero) =>
        /\ sort_step.outcome = "killed"
        /\ sort_step.queue = "none"

\* the flag each producer gives its extension ray
ProducerFlag(producer, rough) ==
    CASE producer = "generate" -> FALSE
      [] producer = "shade_diffuse" -> TRUE
      [] producer = "shade_dielectric" -> FALSE
      [] producer = "shade_glossy" -> rough

\* C17: every extension ray carries an MIS-eligibility flag fixed by its producer:
\* false from kernel_generate, true from shade-diffuse, false from
\* shade-dielectric, and true exactly when roughness >= ROUGHNESS_CUTOFF from
\* shade-glossy; kernel_sort reads back the flag the producer wrote.
C17_FlagByProducer ==
    /\ path.stage = "trace" =>
          UnpackFlag(path.word) = BoolInt(ProducerFlag(path.producer, path.rough))
    /\ sort_step.done =>
          sort_step.mis_eligable = ProducerFlag(sort_step.producer, sort_step.rough)

\* C17 witness: kernel_sort read a set flag from a ray written by shade-diffuse and
\* the MIS branch was taken on it
C17_Witness ==
    /\ sort_step.done
    /\ sort_step.producer = "shade_diffuse"
    /\ sort_step.mis_eligable
    /\ sort_step.outcome = "light_mis"

(***************************************************************************)
(* The kernels render launches for a batch, read off the launch log.       *)
(***************************************************************************)
\* the bounce loop of batch n has run to its end
BatchComplete(n) ==
    \/ n < Len(batches)
    \/ n = Len(batches) /\ (pc \notin BounceLoopPcs \/ (pc = "for" /\ bounce >= NUM_BOUNCES))

\* how often the kernel was launched for batch n with argument arg
LaunchCount(name, n, arg) ==
    Cardinality({k \in 1 .. Len(launches) : launches[k] = Launched(name, n, arg)})

\* C20: with enable_rasterization set the host launches kernel_primary instead of
\* kernel_generate and neither trace nor sort at bounce 0, while it still launches
\* the shade and shadow-trace kernels at bounce 0 (for the material types the scene
\* has) and trace and sort at every bounce >= 1; with it cleared, kernel_generate
\* is launched and trace and sort run at every bounce including 0.
C20_RasterizationLaunches ==
    \A n \in 1 .. Len(batches) :
        BatchComplete(n) =>
            /\ LaunchCount("primary", n, 0) = BoolInt(settings.enable_rasterization)
            /\ LaunchCount("generate", n, 0) = BoolInt(~settings.enable_rasterization)
            /\ \A b \in Bounces :
                  /\ LaunchCount("trace", n, b) =
                         BoolInt(~settings.enable_rasterization \/ b >= 1)
                  /\ LaunchCount("sort", n, b) =
                         BoolInt(~settings.enable_rasterization \/ b >= 1)
                  /\ LaunchCount("shade_diffuse", n, b) = BoolInt(scene_has.diffuse)
                  /\ LaunchCount("shade_dielectric", n, b) = BoolInt(scene_has.dielectric)
                  /\ LaunchCount("shade_glossy", n, b) = BoolInt(scene_has.glossy)
                  /\ LaunchCount("shadow_trace", n, b) = BoolInt(scene_has.lights)

\* C20 witness: a rasterized batch of a scene with every material type is complete:
\* kernel_primary, no trace or sort at bounce 0, the three shade kernels and the
\* shadow trace at bounce 0, trace and sort at bounce 1
C20_Witness ==
    /\ settings.enable_rasterization
    /\ materials = MaterialTypes
    /\ Len(batches) >= 1 /\ BatchComplete(1)
    /\ LaunchCount("primary", 1, 0) = 1 /\ LaunchCount("generate", 1, 0) = 0
    /\ LaunchCount("trace", 1, 0) = 0 /\ LaunchCount("sort", 1, 0) = 0
    /\ LaunchCount("shade_diffuse", 1, 0) = 1 /\ LaunchCount("shade_dielectric", 1, 0) = 1
    /\ LaunchCount("shade_glossy", 1, 0) = 1 /\ LaunchCount("shadow_trace", 1, 0) = 1
    /\ LaunchCount("trace", 1, 1) = 1 /\ LaunchCount("sort", 1, 1) = 1

(***************************************************************************)
(* The sub-pixel jitter of kernel_generate.  The kernel reads the device   *)
(* Settings; sample_index is the frames_since_camera_moved render passes.  *)
(***************************************************************************)
ReconstructionFilters == {"BOX", "GAUSSIAN"}

\* if (settings.enable_svgf) { jitter = taa_halton[...] }
\* else switch (settings.reconstruction_filter) { case BOX: ...; case GAUSSIAN: ... }
GenerateJitter(enable_svgf, reconstruction_filter) ==
    IF enable_svgf THEN "halton"
    ELSE IF reconstruction_filter = "BOX" THEN "box"
    ELSE "gaussian"

\* render launches kernel_generate for a frame
Generate_Jitter ==
    /\ \E reconstruction_filter \in ReconstructionFilters :
          generate_call' =
              [called |-> TRUE,
               enable_svgf |-> settings.enable_svgf,
               enable_taa |-> settings.enable_taa,
               reconstruction_filter |-> reconstruction_filter,
               sample_index |-> frames_since_camera_moved,
               jitter |-> GenerateJitter(settings.enable_svgf, reconstruction_filter)]
    /\ UNCHANGED << rendervars, settings, frames_since_camera_moved, update_call,
                    accumvars, packvars, pathvars, latevars >>

\* the user switches TAA on or off between two frames
ToggleTaa ==
    /\ settings' = [settings EXCEPT !.enable_taa = ~@]
    /\ UNCHANGED << rendervars, casevars >>

GenerateInit ==
    \E c \in UpdateConfigurations : InitAt(1, 1, c) /\ CaseIdle

GenerateNext ==
    \/ Frame_Update
    \/ ToggleSvgf
    \/ ToggleTaa
    \/ Generate_Jitter

GenerateSpec == GenerateInit /\ [][GenerateNext]_vars

\* C19 (as stated): kernel_generate uses the Halton sub-pixel jitter exactly when
\* TAA is enabled; when TAA is disabled it uses the box or the Gaussian jitter
\* according to reconstruction_filter, for every combination of enable_svgf and
\* enable_taa.
C19_Original ==
    generate_call.called =>
        /\ generate_call.jitter = "halton" <=> generate_call.enable_taa
        /\ ~generate_call.enable_taa =>
              generate_call.jitter =
                  IF generate_call.reconstruction_filter = "BOX" THEN "box" ELSE "gaussian"

(***************************************************************************)
(* The SVGF stage of render with the buffer pointers it passes to the      *)
(* kernels.  kernel_svgf_temporal takes no pointers: it works on the       *)
(* globals frame_buffer_direct / frame_buffer_indirect, which resize_init  *)
(* binds to ptr_direct / ptr_indirect.                                     *)
(***************************************************************************)
AtrousIterations == 0 .. (MAX_ATROUS_ITERATIONS + 2)

\* std::swap(direct_in, direct_out); std::swap(indirect_in, indirect_out);
PingPong(s) ==
    [s EXCEPT !.direct_in = s.direct_out, !.direct_out = s.direct_in,
              !.indirect_in = s.indirect_out, !.indirect_out = s.indirect_in]

\* the else branch of if (enable_spatial_variance) without its swap
VarianceSkipped_NoSwap(s) == s

\* if (enable_spatial_variance) { ... } else { swap; swap; }
VarianceSkipped(s) == PingPong(s)

\* a kernel launch with its pointer arguments; written: the buffers the preceding
\* SVGF step wrote
SvgfLaunch(name, s, step_size) ==
    [kernel |-> name,
     direct_in |-> s.direct_in, indirect_in |-> s.indirect_in,
     direct_out |-> s.direct_out, indirect_out |-> s.indirect_out,
     step_size |-> step_size, written |-> s.written]

\* the output buffers of a launch become the buffers written last
Written(s) ==
    [s EXCEPT !.written = [direct |-> s.direct_out, indirect |-> s.indirect_out]]

SvgfOnly == UNCHANGED << rendervars, settings, oldcase, not_svgf >>

\* kernel_svgf_temporal.execute(); direct_in = ptr_direct.ptr; ... indirect_out = ptr_indirect_alt.ptr;
Svgf_Temporal ==
    /\ svgf.pc \in {"idle", "done"}
    /\ settings.enable_svgf
    /\ LET s == [NoSvgf EXCEPT
                    !.direct_in = "ptr_direct", !.indirect_in = "ptr_indirect",
                    !.direct_out = "ptr_direct_alt", !.indirect_out = "ptr_indirect_alt",
                    !.written = [direct |-> "ptr_direct", indirect |-> "ptr_indirect"]]
       IN  svgf' = [s EXCEPT !.pc = "variance",
                             !.log = << SvgfLaunch("svgf_temporal", NoSvgf, 0) >>]
    /\ SvgfOnly

\* if (enable_spatial_variance) kernel_svgf_variance.execute(direct_in, indirect_in,
\* direct_out, indirect_out); else swap
Svgf_Variance ==
    /\ svgf.pc = "variance"
    /\ svgf' = IF settings.enable_spatial_variance
                 THEN [Written(svgf) EXCEPT
                          !.pc = "atrous", !.i = 0,
                          !.log = Append(@, SvgfLaunch("svgf_variance", svgf, 0))]
                 ELSE [VarianceSkipped(svgf) EXCEPT !.pc = "atrous", !.i = 0]
    /\ SvgfOnly

\* for (i = 0; i < atrous_iterations; i++) { step_size = 1 << i; swap; swap;
\* kernel_svgf_atrous.execute(direct_in, indirect_in, direct_out, indirect_out, step_size); }
Svgf_Atrous ==
    /\ svgf.pc = "atrous"
    /\ svgf.i < settings.atrous_iterations
    /\ LET s == PingPong(svgf)
       IN  svgf' = [Written(s) EXCEPT
                       !.i = @ + 1,
                       !.log = Append(@, SvgfLaunch("svgf_atrous", s, StepSize(svgf.i)))]
    /\ SvgfOnly

\* kernel_svgf_finalize.execute(enable_albedo, direct_out, indirect_out);
Svgf_Finalize ==
    /\ svgf.pc = "atrous"
    /\ svgf.i >= settings.atrous_iterations
    /\ svgf' = [svgf EXCEPT !.pc = "done",
                            !.log = Append(@, SvgfLaunch("svgf_finalize", svgf, 0))]
    /\ SvgfOnly

\* between two frames the user changes svgf_settings.atrous_iterations and
\* enable_spatial_variance
Svgf_Settings ==
    /\ svgf.pc \in {"idle", "done"}
    /\ \E n \in AtrousIterations, variance \in BOOLEAN :
          /\ << n, variance >> #
                 << settings.atrous_iterations, settings.enable_spatial_variance >>
          /\ settings' = [settings EXCEPT !.atrous_iterations = n,
                                          !.enable_spatial_variance = variance]
    /\ svgf' = NoSvgf
    /\ UNCHANGED << rendervars, oldcase, not_svgf >>

SvgfInit ==
    /\ \E c \in Configurations : c.settings.enable_svgf /\ InitAt(1, 1, c)
    /\ CaseIdle

SvgfNext ==
    \/ Svgf_Temporal
    \/ Svgf_Variance
    \/ Svgf_Atrous
    \/ Svgf_Finalize
    \/ Svgf_Settings

SvgfSpec == SvgfInit /\ [][SvgfNext]_vars

\* the launches of kernel_svgf_atrous of the frame, in order
AtrousLaunches == SelectSeq(svgf.log, LAMBDA e : e.kernel = "svgf_atrous")

\* a launch reads the buffers the preceding SVGF step wrote
ReadsWritten(e) ==
    /\ e.direct_in = e.written.direct
    /\ e.indirect_in = e.written.indirect

\* C21: the A-trous filter runs exactly atrous_iterations times, iteration i with
\* step size 2^i; in every iteration the input buffers are the ones the preceding
\* SVGF step wrote and differ from the output buffers; finalize reads the buffers
\* written last; for every iteration count including 0, with or without spatial
\* variance.
C21_AtrousPingPong ==
    /\ \A k \in 1 .. Len(AtrousLaunches) :
          /\ AtrousLaunches[k].step_size = 2 ^ (k - 1)
          /\ ReadsWritten(AtrousLaunches[k])
          /\ AtrousLaunches[k].direct_in # AtrousLaunches[k].direct_out
          /\ AtrousLaunches[k].indirect_in # AtrousLaunches[k].indirect_out
    /\ Len(AtrousLaunches) <= settings.atrous_iterations
    /\ svgf.pc = "done" =>
          /\ Len(AtrousLaunches) = settings.atrous_iterations
          /\ svgf.log[Len(svgf.log)].kernel = "svgf_finalize"
          /\ svgf.log[Len(svgf.log)].direct_out = svgf.written.direct
          /\ svgf.log[Len(svgf.log)].indirect_out = svgf.written.indirect

\* C21 witness: without spatial variance three iterations ran with step sizes
\* 1, 2, 4 and finalize read the alternate buffers, which the third wrote
C21_Witness ==
    /\ svgf.pc = "done"
    /\ ~settings.enable_spatial_variance
    /\ Len(AtrousLaunches) = 3
    /\ AtrousLaunches[1].direct_in = "ptr_direct"
    /\ AtrousLaunches[3].step_size = 4
    /\ AtrousLaunches[3].direct_out = "ptr_direct_alt"
    /\ svgf.log[Len(svgf.log)].direct_out = "ptr_direct_alt"

(***************************************************************************)
(* Pathtracer::resize_free and Pathtracer::resize_init, one statement at a *)
(* time, over the handles they release and create.  A handle is the pair   *)
(* of the holder's name (a module global, a member, a texture or surface   *)
(* object) and the generation of resize_init that created it; live is the  *)
(* set of handles created and not yet released.                            *)

\* C23: reading the throughput as (1,1,1) without a load (kernel_sort at bounces 0
\* and 1, the shade kernels at bounce 0) is the same as always storing and loading
\* it: a ray that reaches kernel_sort at bounce <= 1, or a shade kernel at bounce
\* 0, has carried throughput exactly (1,1,1) whichever material was hit at bounce
\* 0, and every throughput loaded later is the one stored for it.
C23_Original ==
    /\ path.stage = "trace" /\ path.bounce <= 1 => path.carried = White
    /\ path.stage \in MaterialTypes /\ path.bounce = 0 => path.carried = White
    /\ \/ path.stage = "trace" /\ path.bounce >= 2
       \/ path.stage \in MaterialTypes /\ path.bounce >= 1
       => path.throughput = path.carried


\* C24: at the end of the bounce loop the pixel's direct and indirect buffers hold
\* only what this frame's path deposited; a path that deposits nothing (primary
\* ray hits a non-emissive surface, no next event estimation) leaves direct at
\* (0,0,0) whatever an earlier frame wrote.
C24_Original ==
    path.stage = "ended" /\ ~settings.enable_next_event_estimation
    => /\ frame_buffer.direct = path.contributed.direct
       /\ frame_buffer.indirect = path.contributed.indirect

(***************************************************************************)
MaxResizeCycles == 3

\* a resize_free that never releases taa_frame_curr
FreeSteps_Short ==
    << "resource_gbuffer_normal_and_depth", "resource_gbuffer_uv",
       "resource_gbuffer_uv_gradient", "resource_gbuffer_triangle_id",
       "resource_gbuffer_motion", "resource_gbuffer_z_gradient",
       "gbuffer_normal_and_depth", "gbuffer_uv", "gbuffer_uv_gradient",
       "gbuffer_triangle_id", "gbuffer_screen_position_prev", "gbuffer_depth_gradient",
       "frame_buffer_albedo", "frame_buffer_moment",
       "resource_accumulator", "accumulator",
       "ptr_direct", "ptr_indirect", "ptr_direct_alt", "ptr_indirect_alt",
       "history_length", "history_direct", "history_indirect", "history_moment",
       "history_normal_and_depth",
       "taa_frame_prev" >>

\* the holders resize_free releases, in the order of its statements
FreeSteps ==
    << "resource_gbuffer_normal_and_depth", "resource_gbuffer_uv",
       "resource_gbuffer_uv_gradient", "resource_gbuffer_triangle_id",
       "resource_gbuffer_motion", "resource_gbuffer_z_gradient",
       "gbuffer_normal_and_depth", "gbuffer_uv", "gbuffer_uv_gradient",
       "gbuffer_triangle_id", "gbuffer_screen_position_prev", "gbuffer_depth_gradient",
       "frame_buffer_albedo", "frame_buffer_moment",
       "resource_accumulator", "accumulator",
       "ptr_direct", "ptr_indirect", "ptr_direct_alt", "ptr_indirect_alt",
       "history_length", "history_direct", "history_indirect", "history_moment",
       "history_normal_and_depth",
       "taa_frame_prev", "taa_frame_curr" >>

\* the handle a holder has now
Handle(n) == << n, resources.holder[n] >>

\* the history lengths one pixel of history_length can hold (the kernel clamps at 255)
HistoryLengths == {0, 1, 255}

\* CUDAMemory::malloc<int>: the values an entry of the new buffer can have; the
\* allocation does not write the memory it returns
Malloc == HistoryLengths

ResizeOnly == UNCHANGED << rendervars, settings, update_call, accumvars, packvars,
                           pathvars, generate_call, not_resources >>

\* one statement of resize_free: the holder's handle is released
Resize_Free ==
    /\ \/ resources.pc = "idle" /\ resources.cycle <= MaxResizeCycles
       \/ resources.pc = "free"
    /\ LET k == IF resources.pc = "idle" THEN 1 ELSE resources.step
           last == k >= Len(FreeSteps)
           h == Handle(FreeSteps[k])
       IN resources' =
              [resources EXCEPT
                  !.pc = IF last THEN "init" ELSE "free",
                  !.step = IF last THEN 1 ELSE k + 1,
                  !.live = @ \ {h},
                  !.faults = IF h \in resources.live THEN @
                             ELSE @ \cup {<< "released twice", h[1] >>}]
    /\ UNCHANGED frames_since_camera_moved
    /\ ResizeOnly

\* one statement of resize_init: the holder gets a new handle; the last of them
\* is followed by frames_since_camera_moved = 0
Resize_Init ==
    /\ resources.pc = "init"
    /\ LET k == resources.step
           last == k >= Len(InitSteps)
           n == InitSteps[k]
           generation == resources.cycle + 1
       IN /\ \E content \in Malloc :
                resources' =
                    [resources EXCEPT
                        !.pc = IF last THEN "idle" ELSE "init",
                        !.step = IF last THEN 1 ELSE k + 1,
                        !.cycle = IF last THEN generation ELSE @,
                        !.rendered = FALSE,
                        !.holder[n] = generation,
                        !.live = @ \cup {<< n, generation >>},
                        !.faults = IF Handle(n) \in resources.live
                                   THEN @ \cup {<< "never released", n >>}
                                   ELSE @,
                        !.history_length = IF n = "history_length" THEN content
                                           ELSE @]
          /\ frames_since_camera_moved' =
                 IF last THEN 0 ELSE frames_since_camera_moved
    /\ ResizeOnly

\* a frame between two resizes: update counts it and render's kernels use every
\* holder's handle
Resize_Frame ==
    /\ resources.pc = "idle"
    /\ \E settings_changed \in BOOLEAN, moved \in BOOLEAN :
          /\ update(frames_since_camera_moved, settings_changed,
                    settings.enable_svgf, moved) <= MaxResizeCycles
          /\ frames_since_camera_moved' =
                 update(frames_since_camera_moved, settings_changed,
                        settings.enable_svgf, moved)
    /\ resources' =
           [resources EXCEPT
               !.rendered = TRUE,
               !.faults = @ \cup {<< "used after release", n >> :
                                     n \in {m \in ResizeScoped :
                                               Handle(m) \notin resources.live}}]
    /\ ResizeOnly

ResizeInit ==
    /\ \E c \in UpdateConfigurations : InitAt(1, 1, c)
    /\ CaseIdle

ResizeNext ==
    \/ Resize_Free
    \/ Resize_Init
    \/ Resize_Frame

ResizeSpec == ResizeInit /\ [][ResizeNext]_vars

\* C22: every handle resize_init creates is released exactly once by resize_free
\* (nothing released twice, nothing overwritten while live, nothing used by a
\* frame after its release), and between resizes the live set is exactly the
\* handles the holders have, so its size is the same after any number of cycles.
C22_ReleasedExactlyOnce ==
    /\ resources.faults = {}
    /\ resources.pc = "idle" =>
          /\ resources.live = {Handle(n) : n \in ResizeScoped}
          /\ Cardinality(resources.live) = Len(InitSteps)
    /\ resources.pc = "init" /\ resources.step = 1 => resources.live = {}

\* C22 witness: three free/init cycles done and a frame rendered after the third
C22_Witness ==
    /\ resources.pc = "idle"
    /\ resources.cycle = 4
    /\ resources.rendered
    /\ Cardinality(resources.live) = 27
    /\ << "taa_frame_curr", 4 >> \in resources.live

\* C25: after resize_free followed by resize_init no temporal state survives:
\* before the next frame is rendered frames_since_camera_moved is 0 and the SVGF
\* history length of every pixel is 0.
C25_Original ==
    resources.pc = "idle" /\ resources.cycle > 1 /\ ~resources.rendered
    => /\ frames_since_camera_moved = 0
       /\ resources.history_length = 0

\* every shade kernel of bounce b has been launched (or skipped) and has run all
\* its threads
ShadeCompleted(b) == pc = "shadow" /\ todo = {} /\ bounce = b

\* C26: once the shade kernels of a bounce b < num_bounces - 1 have completed,
\* N_trace[b + 1] = N_diffuse[b] + N_dielectric[b] + N_glossy[b], so N_trace never
\* grows from one bounce to the next; at b = num_bounces - 1 no shade kernel has
\* incremented a trace counter or written an extension ray.
C26_Original ==
    \A b \in Bounces :
        ShadeCompleted(b) =>
            IF b < settings.num_bounces - 1
              THEN /\ buffer_sizes["trace"][b + 1] = Routed(b)
                   /\ buffer_sizes["trace"][b + 1] <= buffer_sizes["trace"][b]
              ELSE \A c \in Bounces :
                      c > b => /\ buffer_sizes["trace"][c] = 0
                               /\ handed["trace"][c] = << >>

\* the flag the host tests before it launches the kernel that consumes queue q
SceneHasQueue(q) ==
    IF q = "diffuse" THEN scene_has.diffuse
    ELSE IF q = "dielectric" THEN scene_has.dielectric
    ELSE IF q = "glossy" THEN scene_has.glossy
    ELSE scene_has.lights

\* C27: whenever the host skips a shade kernel or the shadow trace kernel because
\* its scene_has_* flag is false, the queue that kernel would consume is empty at
\* every bounce: no ray is ever left in a queue nobody reads.
C27_SkippedQueuesEmpty ==
    \A q \in {"diffuse", "dielectric", "glossy", "shadow"}, b \in Bounces :
        ~SceneHasQueue(q) =>
            /\ buffer_sizes[q][b] = 0
            /\ handed[q][b] = << >>

\* C27 witness: with next event estimation on, in a scene with diffuse surfaces
\* but neither glossy surfaces nor lights, bounce 0 has routed a ray to the
\* diffuse queue, kernel_shade_diffuse has processed it, and the host has skipped
\* kernel_shade_glossy and kernel_shadow_trace
C27_Witness ==
    /\ pc = "for"
    /\ bounce = 1
    /\ settings.enable_next_event_estimation
    /\ scene_has.diffuse /\ ~scene_has.glossy /\ ~scene_has.lights
    /\ buffer_sizes["diffuse"][0] >= 1
    /\ buffer_sizes["trace"][1] >= 1
    /\ kernel.name = "shade_diffuse"

(***************************************************************************)
(* The pixel index of a camera ray: resize_init fixes screen_width,        *)
(* screen_pitch and screen_height, render cuts the frame into batches,     *)
(* kernel_generate computes the index from the thread index and the        *)
(* batch's pixel offset, kernel_sort splits it again.  The warp size and   *)
(* the batch size are scaled so that the pitch exceeds the width and a     *)
(* frame takes several batches.                                            *)
(***************************************************************************)
PixelMaxWidth == 3

PixelMaxHeight == 2

PixelWarpSize == 2

PixelBatchSize == 2

\* int pitch = (width + WARP_SIZE - 1) / WARP_SIZE * WARP_SIZE
ScreenPitch(width) == ((width + PixelWarpSize - 1) \div PixelWarpSize) * PixelWarpSize

\* int x = index_offset % screen_width
GenerateX(index_offset) == index_offset % pixel.width

\* int y = index_offset / screen_width
GenerateY(index_offset) == index_offset \div pixel.width

\* int pixel_index = x + y * screen_pitch
PixelIndex(x, y) == x + y * pixel.pitch

\* a decoding by the width instead of the pitch
SortX_Width(ray_pixel_index) == ray_pixel_index % pixel.width

\* int x = ray_pixel_index % screen_pitch
SortX(ray_pixel_index) == ray_pixel_index % pixel.pitch

\* int y = ray_pixel_index / screen_pitch
SortY(ray_pixel_index) == ray_pixel_index \div pixel.pitch

PixelOnly == UNCHANGED << rendervars, settings, oldcase, not_pixel >>

\* resize_init(width, height) between two frames, and the head of the next render
Pixel_Resize ==
    /\ pixel.pixels_left <= 0
    /\ pixel.pixel_count = 0
    /\ \E width \in 1 .. PixelMaxWidth, height \in 1 .. PixelMaxHeight :
          pixel' = [NoPixel EXCEPT
                       !.width = width, !.height = height,
                       !.pitch = ScreenPitch(width),
                       !.batch_size = Min(PixelBatchSize, width * height),
                       !.pixels_left = width * height]
    /\ PixelOnly

\* while (pixels_left > 0) { pixel_offset = ...; pixel_count = ...; kernel_generate.execute(...)
Pixel_Batch ==
    /\ pixel.pixels_left > 0
    /\ pixel.pixel_count = 0
    /\ pixel' = [pixel EXCEPT
                    !.pixel_offset = pixel.width * pixel.height - pixel.pixels_left,
                    !.pixel_count = BatchPixelCount(pixel.pixels_left, pixel.batch_size),
                    !.batch = @ + 1,
                    !.todo = 0 .. (pixel.batch_size - 1)]
    /\ PixelOnly

\* one thread of kernel_generate; the launch is taken to have a thread for every
\* index below batch_size
Pixel_Generate ==
    /\ \E index \in pixel.todo :
          LET index_offset == index + pixel.pixel_offset
              x == GenerateX(index_offset)
              y == GenerateY(index_offset)
          IN  pixel' = [pixel EXCEPT
                  !.todo = @ \ {index},
                  !.written =
                      IF index >= pixel.pixel_count THEN @
                      ELSE @ \cup {[batch |-> pixel.batch, index |-> index,
                                    x |-> x, y |-> y,
                                    pixel_index |-> PixelIndex(x, y)]}]
    /\ PixelOnly

\* one thread of kernel_sort on a ray of the batch
Pixel_Sort ==
    /\ pixel.pixel_count > 0
    /\ pixel.todo = {}
    /\ \E ray \in {r \in pixel.written : r.batch = pixel.batch} \ 
                     {d.ray : d \in pixel.sorted} :
          pixel' = [pixel EXCEPT
                       !.sorted = @ \cup {[ray |-> ray,
                                           x |-> SortX(ray.pixel_index),
                                           y |-> SortY(ray.pixel_index)]}]
    /\ PixelOnly

\* pixels_left -= batch_size; }
Pixel_BatchEnd ==
    /\ pixel.pixel_count > 0
    /\ pixel.todo = {}
    /\ pixel' = [pixel EXCEPT !.pixels_left = @ - pixel.batch_size,
                              !.pixel_count = 0]
    /\ PixelOnly

PixelInit ==
    /\ \E c \in UpdateConfigurations : InitAt(1, 1, c)
    /\ CaseIdle

PixelNext ==
    \/ Pixel_Resize
    \/ Pixel_Batch
    \/ Pixel_Generate
    \/ Pixel_Sort
    \/ Pixel_BatchEnd

PixelSpec == PixelInit /\ [][PixelNext]_vars

\* C28: the pixel index p = x + y * screen_pitch, with x = (i + pixel_offset) mod
\* screen_width and y = (i + pixel_offset) div screen_width, is below screen_pitch *
\* screen_height; distinct (batch, i) of a frame give distinct p; and kernel_sort's
\* x = p mod pitch, y = p div pitch is the (x, y) kernel_generate started from.
C28_PixelIndex ==
    /\ \A r \in pixel.written :
          /\ r.pixel_index >= 0
          /\ r.pixel_index < pixel.pitch * pixel.height
          /\ r.x < pixel.width /\ r.y < pixel.height
    /\ \A r1, r2 \in pixel.written : r1.pixel_index = r2.pixel_index => r1 = r2
    /\ \A d \in pixel.sorted : d.x = d.ray.x /\ d.y = d.ray.y

\* C28 witness: on a screen 3 wide with pitch 4 the third batch wrote the ray of
\* the pixel (2, 1) and kernel_sort decoded it
C28_Witness ==
    /\ pixel.width = 3 /\ pixel.pitch = 4 /\ pixel.height = 2
    /\ pixel.batch = 3
    /\ \E d \in pixel.sorted :
          /\ d.ray.batch = 3
          /\ d.ray.pixel_index = 6
          /\ d.x = 2 /\ d.y = 1

(***************************************************************************)
(* TextureLoader::load_stb with mipmapping: the size of the allocation,    *)
(* the number of levels, and the loop that downsamples level after level   *)
(* into the allocation.  Texture sizes are scaled to MaxTextureSize.       *)
(***************************************************************************)
MaxTextureSize == 8

\* the loop is followed for this many levels
MaxMipLevel == 6

\* if (w > 1) w /= 2
Halve(d) == IF d > 1 THEN d \div 2 ELSE d

\* while (true) { pixel_count += w * h; if (w == 1 && h == 1) break; halve w, h }
RECURSIVE MipPixelCount(_, _)
MipPixelCount(w, h) ==
    w * h + (IF w = 1 /\ h = 1 THEN 0 ELSE MipPixelCount(Halve(w), Halve(h)))

\* int(log2f(n)) for n >= 1
RECURSIVE FloorLog2(_)
FloorLog2(n) == IF n <= 1 THEN 0 ELSE 1 + FloorLog2(n \div 2)

\* texture.mip_levels = 1 + int(log2f(Math::max(texture.width, texture.height)))
MipLevels(w, h) == 1 + FloorLog2(IF w > h THEN w ELSE h)

MipOnly == UNCHANGED << rendervars, settings, oldcase, not_mip >>

\* load_stb up to the head of the downsampling loop, for a texture of w x h texels
Mip_Load ==
    /\ mip.pc \in {"idle", "done"}
    /\ \E w \in 1 .. MaxTextureSize, h \in 1 .. MaxTextureSize :
          mip' = [pc |-> "loop", width |-> w, height |-> h,
                  pixel_count |-> MipPixelCount(w, h),
                  mip_levels |-> MipLevels(w, h),
                  offset |-> w * h, offset_prev |-> 0,
                  level_width |-> w \div 2, level_height |-> h \div 2,
                  level |-> 1, levels |-> << >>]
    /\ MipOnly

\* one pass of the loop: downsample writes level_width * level_height texels at
\* data_rgba + offset, mip_offsets[level] is set, then break or the next size
Mip_Level ==
    /\ mip.pc = "loop"
    /\ mip.level <= MaxMipLevel
    /\ LET last == mip.level_width = 1 /\ mip.level_height = 1
       IN  mip' = [mip EXCEPT
               !.levels = Append(@, [level |-> mip.level,
                                     width |-> mip.level_width,
                                     height |-> mip.level_height,
                                     offset |-> mip.offset]),
               !.level = @ + 1,
               !.pc = IF last THEN "done" ELSE "loop",
               !.offset_prev = IF last THEN @ ELSE mip.offset,
               !.offset = IF last THEN @
                          ELSE @ + mip.level_width * mip.level_height,
               !.level_width = IF last THEN @ ELSE Halve(@),
               !.level_height = IF last THEN @ ELSE Halve(@)]
    /\ MipOnly

MipInit ==
    /\ \E c \in UpdateConfigurations : InitAt(1, 1, c)
    /\ CaseIdle

MipNext ==
    \/ Mip_Load
    \/ Mip_Level

MipSpec == MipInit /\ [][MipNext]_vars

\* C29: for every texture of width, height >= 1 the mip chain loop terminates with
\* level = mip_levels = 1 + floor(log2(max(width, height))) (so a pass of the loop
\* starts only for a level below mip_levels), every downsampled level is at least
\* 1 x 1, and every level is written inside the pixel_count allocated texels.
C29_Original ==
    /\ mip.pc = "loop" => mip.level < mip.mip_levels
    /\ mip.pc = "done" => mip.level = mip.mip_levels
    /\ \A k \in 1 .. Len(mip.levels) :
          /\ mip.levels[k].width >= 1
          /\ mip.levels[k].height >= 1
          /\ mip.levels[k].level < mip.mip_levels
          /\ mip.levels[k].offset + mip.levels[k].width * mip.levels[k].height
                 <= mip.pixel_count

(***************************************************************************)
(* Camera::update and Camera::resize in the plane: the position is a pair  *)
(* of integers, the rotation a number of quarter turns about the up axis,  *)
(* a key moves the camera one unit inside a square of side                 *)
(* MaxCameraPosition, matrices are 3 x 3 homogeneous integer matrices.     *)
(***************************************************************************)
MaxCameraPosition == 1

MaxCameraSize == 2

\* the product of two 3 x 3 matrices
MatMul(a, b) ==
    [i \in 1 .. 3 |->
        [j \in 1 .. 3 |-> a[i][1] * b[1][j] + a[i][2] * b[2][j] + a[i][3] * b[3][j]]]

\* Matrix4::create_translation
create_translation(v) == << << 1, 0, v[1] >>, << 0, 1, v[2] >>, << 0, 0, 1 >> >>

QuarterCos(r) == << 1, 0, -1, 0 >>[(r % 4) + 1]

QuarterSin(r) == << 0, 1, 0, -1 >>[(r % 4) + 1]

\* Matrix4::create_rotation
create_rotation(r) ==
    << << QuarterCos(r), -QuarterSin(r), 0 >>,
       << QuarterSin(r), QuarterCos(r), 0 >>,
       << 0, 0, 1 >> >>

\* Quaternion::conjugate: the opposite rotation
conjugate(r) == (4 - r) % 4

\* rotation * vector
Rotated(r, v) ==
    << QuarterCos(r) * v[1] - QuarterSin(r) * v[2],
       QuarterSin(r) * v[1] + QuarterCos(r) * v[2] >>

\* Matrix4::perspective for a screen of width x height: a scaling by the aspect
perspective(width, height) ==
    << << height, 0, 0 >>, << 0, width, 0 >>, << 0, 0, 1 >> >>

\* create_translation(-position) * create_rotation(conjugate(rotation)) * projection
ViewProjection(position, rotation, projection) ==
    MatMul(MatMul(create_translation(<< -position[1], -position[2] >>),
                  create_rotation(conjugate(rotation))),
           projection)

\* an update that leaves view_projection_prev as it is
ViewProjectionPrev_Kept(c) == c.view_projection_prev

\* view_projection_prev as update computes it on entry
ViewProjectionPrev(c) == ViewProjection(c.position, c.rotation, c.projection)

\* halton_x, halton_y in tenths
halton_x == << 3, 7, 2, 8 >>

halton_y == << 2, 8, 7, 3 >>

\* (halton[jitter_index] * 2 - 1), in tenths of a pixel
Jitter(apply_jitter, jitter_index) ==
    IF apply_jitter
      THEN << halton_x[jitter_index + 1] * 2 - 10, halton_y[jitter_index + 1] * 2 - 10 >>
      ELSE << 0, 0 >>

CameraKeys == {"none", "W", "A", "S", "D", "LEFT", "RIGHT"}

\* the position after the key: W/S along forward, D/A along right
KeyPosition(c, key) ==
    LET right == Rotated(c.rotation, << 1, 0 >>)
        forward == Rotated(c.rotation, << 0, -1 >>)
        p == c.position
    IN  IF key = "W" THEN << p[1] + forward[1], p[2] + forward[2] >>
        ELSE IF key = "S" THEN << p[1] - forward[1], p[2] - forward[2] >>
        ELSE IF key = "D" THEN << p[1] + right[1], p[2] + right[2] >>
        ELSE IF key = "A" THEN << p[1] - right[1], p[2] - right[2] >>
        ELSE p

\* the rotation after the key
KeyRotation(c, key) ==
    IF key = "LEFT" THEN (c.rotation + 1) % 4
    ELSE IF key = "RIGHT" THEN (c.rotation + 3) % 4
    ELSE c.rotation

CameraOnly == UNCHANGED << rendervars, settings, oldcase, not_camera >>

\* Camera::update(delta, apply_jitter) with at most one key down
Camera_Update ==
    /\ \E key \in CameraKeys, apply_jitter \in BOOLEAN :
          LET position == KeyPosition(camera, key)
              rotation == KeyRotation(camera, key)
          IN  /\ \A k \in 1 .. 2 : position[k] \in 0 .. MaxCameraPosition
              /\ camera' =
                     [camera EXCEPT
                         !.jitter = Jitter(apply_jitter, camera.jitter_index),
                         !.jitter_index = (camera.jitter_index + 1) % 4,
                         !.view_projection_prev = ViewProjectionPrev(camera),
                         !.moved = key # "none",
                         !.position = position,
                         !.rotation = rotation,
                         !.view_projection =
                             ViewProjection(position, rotation, camera.projection),
                         !.calls = Min(@ + 1, 2),
                         !.computed = camera.view_projection,
                         !.steady = ~camera.changed,
                         !.changed = FALSE]
    /\ CameraOnly

\* Camera::resize(width, height) between two updates
Camera_Resize ==
    /\ \E width \in 1 .. MaxCameraSize, height \in 1 .. MaxCameraSize :
          /\ perspective(width, height) # camera.projection
          /\ camera' = [camera EXCEPT !.projection = perspective(width, height),
                                      !.changed = TRUE]
    /\ CameraOnly

CameraInit ==
    /\ \E c \in UpdateConfigurations : InitAt(1, 1, c)
    /\ CaseIdle

CameraNext ==
    \/ Camera_Update
    \/ Camera_Resize

CameraSpec == CameraInit /\ [][CameraNext]_vars

\* C30: after every Camera::update that follows another one, view_projection_prev
\* is the view_projection the previous call computed, provided nothing changed
\* position, rotation or projection between the two calls; whether or not the
\* camera moves during the current update.
C30_PrevIsPreviousViewProjection ==
    camera.calls >= 2 /\ camera.steady =>
        camera.view_projection_prev = camera.computed

\* C30 witness: the camera moved in the previous update and turns in this one, with
\* jitter: view_projection_prev is what the previous call computed and differs both
\* from the new view_projection and from the matrix of the camera at rest
C30_Witness ==
    /\ camera.calls >= 2
    /\ camera.steady
    /\ camera.moved
    /\ camera.jitter # << 0, 0 >>
    /\ camera.view_projection_prev = camera.computed
    /\ camera.view_projection_prev # camera.view_projection
    /\ camera.view_projection_prev # Identity

====
